---- MODULE Spec2Model ----
(***************************************************************************)
(* A model of the IoT device simulator (iotlab/device_simulator), of its    *)
(* device models (device_types) and of the ingestion client (ingest_api).  *)
(*                                                                         *)
(*   Spec            DeviceSimulator: the device registry, the thread      *)
(*                   table self.threads, the global running flag and one   *)
(*                   worker per _device_thread, interleaved with the API   *)
(*                   calls.                                                *)
(*   SpecReconnect   DeviceSimulator._on_disconnect / _reconnect: the      *)
(*                   reconnect threads of the simulator's MQTT client.     *)
(*   SpecIngest      MQTTClient.on_message and what it calls: the tables   *)
(*                   it writes and the channel-layer groups it sends to,   *)
(*                   with at most one failing call per message.            *)
(*   SpecTemperature one TemperatureSensor asked for telemetry.            *)
(*   SpecPipeline    Spec with the samples followed from the worker that   *)
(*                   generates them through the topic to ingestion.        *)
(*   SpecPublish     Spec with publish_telemetry taken in its two steps,   *)
(*                   the registry lookup and the call of the transport.    *)
(*   SpecDevices     a device of any of the three types asked for          *)
(*                   telemetry.                                            *)
(*   SpecFanout      one TelemetryConsumer and the ingestion client: the   *)
(*                   events of on_message followed to the socket.          *)
(*                                                                         *)
(* API calls are atomic steps of the calling thread; each worker thread    *)
(* advances one source statement group at a time.                          *)
(***************************************************************************)
EXTENDS Integers, Sequences, FiniteSets, TLC

\* ------------------------------------------------------------------ bounds
MaxThreads == 2          \* worker threads start_device may create
MaxObjects == 1          \* device objects add_device may construct
MaxReconnectThreads == 2 \* reconnect threads _on_disconnect may create

MaxMessages == 2         \* messages the ingestion client receives
MaxSamples == 2          \* samples followed from generation to fan-out

Devices == {"d1"}        \* device ids the callers use
Threads == 1..MaxThreads
ReconnectThreads == 1..MaxReconnectThreads

\* ------------------------------------------------------- program constants
\* device_types.DEVICE_TYPES: the keys of the dictionary
DEVICE_TYPES == {"temperature", "vibration", "flow"}
\* the types a caller may pass to add_device ("pressure" is not a known type)
TypeInputs == DEVICE_TYPES \cup {"pressure"}
\* _reconnect(self, max_retries=5)
max_retries == 5

\* AnomalyDetection.SEVERITY_CHOICES: the stored values
SEVERITY_CHOICES == {"low", "medium", "high", "critical"}

\* the rows of the Device table of the ingestion database
KnownDevices == Devices \cup {"device-123"}

NoDevice == 0   \* registry.get_device returns None
NoThread == 0   \* the device id is not a key of self.threads

VARIABLES
    registry,       \* DeviceRegistry.devices: device id -> device object id
    nobjects,       \* device objects constructed so far
    running,        \* DeviceSimulator.running
    stop_returned,  \* stop() has returned True and start() has not since
    raised,         \* the exception the latest API call raised
    threads,        \* DeviceSimulator.threads: device id -> the worker whose
                    \* threading.local object is stored
    local_running,  \* the attribute `running` of worker t's threading.local
                    \* object, per namespace: "worker" is what thread t reads,
                    \* "caller" what the threads calling the API read/write
    nthreads,       \* worker threads created so far
    pc,             \* each worker's position in _device_thread
    dev,            \* each worker's device_id argument
    obj,            \* each worker's `device` (object id)
    tick,           \* outcome of the tick a sleeping worker has just run
    connected,      \* the MQTT client's connection is up
    nreconnects,    \* reconnect threads created so far
    rpc,            \* each reconnect thread's position in _reconnect
    retries,        \* each reconnect thread's `retries`
    attempts,       \* client.reconnect() calls each reconnect thread made
    slept,          \* the delays each reconnect thread slept, in order
    rresult,        \* each reconnect thread's return value
    telemetry_rows, \* the Telemetry table, in insertion order
    anomaly_rows,   \* the AnomalyDetection table, in insertion order
    last_seen,      \* Device.last_seen of each device in the Device table
    groups,         \* what the channel layer has delivered to each group
    nmsgs,          \* messages MQTTClient.on_message has been called with
    ingest_topic,   \* msg.topic.split('/') of the latest of these messages
    ingest_log,     \* the log line on_message ended the latest message with
    ingest_outcome, \* how process_telemetry came back to on_message
    gen_count,      \* samples the simulated device has generated so far
    held,           \* the sample each worker holds between generate_telemetry
                    \* and publish_telemetry (its generation number)
    topic_queue,    \* messages in flight on the topic telemetry/<device id>
    noise_factor,   \* DeviceType.noise_factor, in percent
    failure_state,  \* DeviceType.failure_state
    failure_duration, \* DeviceType.failure_duration
    last_reading,   \* DeviceType.last_reading
    emitted,        \* the telemetry generate_telemetry returned last
    anomaly_counter, \* DeviceType.anomaly_counter, in fifths
    params,         \* the attributes the subclass constructor drew
    episode,        \* the failure the device is in or has just left: the
                    \* duration drawn and the ticks run since that draw
    detected,       \* the latest detect_anomalies call: its arguments and
                    \* how it came back
    ws_state,       \* each TelemetryConsumer's socket: new, open, rejected
                    \* (connect closed it) or closed
    ws_device_id,   \* each consumer's self.device_id
    ws_groups,      \* each consumer's self.groups
    ws_last,        \* the latest call on each consumer, its device id and
                    \* the type of the message it sent to the socket
    layer,          \* the channel layer: the channels of each group
    ws_frames,      \* the frames each consumer's handlers sent to its socket
                    \* for the latest ingested message, with their numbers
    conn_state,     \* the ingestion client's connection to the broker
    subscriptions,  \* the topic filters the broker holds for that connection
    reconnect_calls, \* self.client.reconnect() calls since the connection
                    \* was last lost
    conn_log        \* the log line the latest connection callback ended with

vars == <<registry, nobjects, running, stop_returned, raised, threads, local_running,
          nthreads, pc, dev, obj, tick, connected, nreconnects, rpc, retries,
          attempts, slept, rresult, telemetry_rows, anomaly_rows, last_seen, groups,
          nmsgs, ingest_topic, ingest_log, ingest_outcome, gen_count, held,
          topic_queue,
          noise_factor, failure_state, failure_duration, last_reading, emitted,
          anomaly_counter, params, episode, detected,
          ws_state, ws_device_id, ws_groups, ws_last, layer, ws_frames,
          conn_state, subscriptions, reconnect_calls, conn_log>>

reconnectVars == <<nreconnects, rpc, retries, attempts, slept, rresult>>

\* MQTTClient (ingestion): the tables it writes and the groups it sends to
ingestVars == <<telemetry_rows, anomaly_rows, last_seen, groups, nmsgs,
                ingest_topic, ingest_log, ingest_outcome>>

\* the samples on their way from a worker to the broker and to ingestion
pipeVars == <<gen_count, held, topic_queue>>

\* one device object (TemperatureSensor, VibrationSensor or FlowMeter)
sensorVars == <<noise_factor, failure_state, failure_duration, last_reading,
                emitted, anomaly_counter, params, episode>>

\* detect_anomalies called on its own
detectVars == <<detected>>

\* what the sections after the simulator, its messages and the device object
\* add

\* the TelemetryConsumer objects and the channel layer
socketVars == <<ws_state, ws_device_id, ws_groups, ws_last, layer, ws_frames>>

\* the connection of the ingestion MQTTClient
clientVars == <<conn_state, subscriptions, reconnect_calls, conn_log>>

addedVars == <<detectVars, socketVars, clientVars>>

\* everything outside the DeviceSimulator and its MQTT client
outsideVars == <<ingestVars, pipeVars, sensorVars, addedVars>>

\* ---------------------------------------------------------- initial states
InitSim ==
    /\ registry = [d \in Devices |-> NoDevice]
    /\ nobjects = 0
    /\ running = FALSE
    /\ stop_returned = FALSE
    /\ raised = "none"
    /\ threads = [d \in Devices |-> NoThread]
    /\ local_running = [t \in Threads |-> [worker |-> "unset", caller |-> "unset"]]
    /\ nthreads = 0
    /\ pc = [t \in Threads |-> "unborn"]
    /\ dev = [t \in Threads |-> "none"]
    /\ obj = [t \in Threads |-> 0]
    /\ tick = [t \in Threads |-> "none"]

InitReconnect ==
    /\ connected = FALSE
    /\ nreconnects = 0
    /\ rpc = [r \in ReconnectThreads |-> "unborn"]
    /\ retries = [r \in ReconnectThreads |-> 0]
    /\ attempts = [r \in ReconnectThreads |-> 0]
    /\ slept = [r \in ReconnectThreads |-> <<>>]
    /\ rresult = [r \in ReconnectThreads |-> "none"]

\* f'telemetry_{device.id}'
GroupOf(d) == "telemetry_" \o d

\* the channel-layer groups: one per device and the catch-all group
GroupNames == {GroupOf(d) : d \in KnownDevices} \cup {"telemetry_all"}

InitIngest ==
    /\ telemetry_rows = <<>>
    /\ anomaly_rows = <<>>
    /\ last_seen = [d \in KnownDevices |-> 0]
    /\ groups = [g \in GroupNames |-> <<>>]
    /\ nmsgs = 0
    /\ ingest_topic = <<>>
    /\ ingest_log = "none"
    /\ ingest_outcome = "none"

InitSensor ==
    /\ noise_factor = 5
    /\ failure_state = FALSE
    /\ failure_duration = 0
    /\ last_reading = [status |-> "none"]
    /\ emitted = [data |-> [status |-> "none"], anomalies |-> <<>>]
    /\ anomaly_counter = 0
    /\ params = [kind |-> "none"]
    /\ episode = [drawn |-> 0, ticks |-> 0]

InitDetect ==
    detected = [kind |-> "none"]

\* the consumers of the websocket routes
MaxConsumers == 1
Consumers == 1..MaxConsumers

\* the device ids a websocket URL or command names: the rows of the Device
\* table and an id that has no row
SocketDevices == KnownDevices \cup {"ghost"}

\* the groups a channel can be added to
SocketGroups == {GroupOf(d) : d \in SocketDevices} \cup {"telemetry_all"}

\* no call yet
NoCall == [op |-> "none", device_id |-> "none", sent |-> "none"]

InitSocket ==
    /\ ws_state = [c \in Consumers |-> "new"]
    /\ ws_device_id = [c \in Consumers |-> "none"]
    /\ ws_groups = [c \in Consumers |-> <<>>]
    /\ ws_last = [c \in Consumers |-> NoCall]
    /\ layer = [g \in SocketGroups |-> {}]
    /\ ws_frames = [c \in Consumers |-> <<>>]

InitClient ==
    /\ conn_state = "idle"
    /\ subscriptions = {}
    /\ reconnect_calls = 0
    /\ conn_log = "none"

InitPipe ==
    /\ gen_count = 0
    /\ held = [t \in Threads |-> 0]
    /\ topic_queue = <<>>

Init ==
    /\ InitSim /\ InitReconnect /\ InitIngest /\ InitPipe /\ InitSensor
    /\ InitDetect /\ InitSocket /\ InitClient

\* ------------------------------------------------------------ DeviceRegistry
\* DeviceRegistry.get_device
get_device(d) == registry[d]

\* ------------------------------------------------------- DeviceSimulator API
\* add_device without the type check
KnownType_NoCheck(ty) == TRUE

\* `device_type not in DEVICE_TYPES` is false
KnownType(ty) == ty \in DEVICE_TYPES

\* device = device_class(**kwargs): the device add_device constructs and returns
NewDevice(ty, d) == [oid |-> nobjects + 1, type |-> ty, device_id |-> d]

\* add_device(device_type, device_id=d)
add_device(ty, d) ==
    IF ~KnownType(ty)
    THEN /\ raised' = "ValueError"
         /\ UNCHANGED <<registry, nobjects>>
    ELSE /\ nobjects < MaxObjects
         /\ nobjects' = nobjects + 1
         /\ registry' = [registry EXCEPT ![NewDevice(ty, d).device_id] =
                                            NewDevice(ty, d).oid]
         /\ raised' = "none"

\* the tail of remove_device and stop_device: the thread table entry of d
\* gets running = False (written by the calling thread) and is deleted
ClearThreadEntry(d) ==
    /\ local_running' = [local_running EXCEPT ![threads[d]].caller = "False"]
    /\ threads' = [threads EXCEPT ![d] = NoThread]

\* what remove_device(device_id) returns
remove_device_result(d) == get_device(d) # NoDevice

\* remove_device(device_id)
remove_device(d) ==
    IF get_device(d) # NoDevice
    THEN /\ registry' = [registry EXCEPT ![d] = NoDevice]
         /\ IF threads[d] # NoThread
            THEN ClearThreadEntry(d)
            ELSE UNCHANGED <<threads, local_running>>
    ELSE UNCHANGED <<registry, threads, local_running>>

\* threading.Thread(target=self._device_thread, args=(device_id, interval)).start()
SpawnDeviceThread(d) ==
    /\ nthreads < MaxThreads
    /\ nthreads' = nthreads + 1
    /\ pc' = [pc EXCEPT ![nthreads + 1] = "spawned"]
    /\ dev' = [dev EXCEPT ![nthreads + 1] = d]

\* `device_id in self.threads` in start_device
AlreadyRunning(d) == threads[d] # NoThread

\* what start_device(device_id, interval) returns
start_device_result(d) == get_device(d) # NoDevice

\* start_device(device_id, interval)
start_device(d) ==
    IF get_device(d) = NoDevice \/ AlreadyRunning(d)
    THEN UNCHANGED <<nthreads, pc, dev>>
    ELSE SpawnDeviceThread(d)

\* what stop_device(device_id) returns
stop_device_result(d) == threads[d] # NoThread

\* stop_device(device_id)
stop_device(d) ==
    IF threads[d] # NoThread
    THEN ClearThreadEntry(d)
    ELSE UNCHANGED <<threads, local_running>>

\* start(); `ok` is whether connect() reaches the broker
start(ok) ==
    IF running \/ ~ok
    THEN UNCHANGED <<running, stop_returned, connected>>
    ELSE /\ connected' = TRUE
         /\ running' = TRUE
         /\ stop_returned' = FALSE

\* stop(): stop_device for every key of self.threads, then disconnect()
stop ==
    IF ~running
    THEN UNCHANGED <<running, stop_returned, threads, local_running, connected>>
    ELSE /\ running' = FALSE
         /\ local_running' =
              [t \in Threads |->
                 IF \E d \in Devices : threads[d] = t
                 THEN [local_running[t] EXCEPT !.caller = "False"]
                 ELSE local_running[t]]
         /\ threads' = [d \in Devices |-> NoThread]
         /\ connected' = FALSE
         /\ stop_returned' = TRUE

\* ------------------------------------------------------------ _device_thread
\* the thread function returns: its locals are gone
Exit(t) ==
    /\ pc' = [pc EXCEPT ![t] = "done"]
    /\ dev' = [dev EXCEPT ![t] = "none"]
    /\ obj' = [obj EXCEPT ![t] = 0]

\* thread_local.running = True; device = self.registry.get_device(device_id)
device_thread_lookup(t) ==
    /\ pc[t] = "spawned"
    /\ local_running' = [local_running EXCEPT ![t].worker = "True"]
    /\ IF get_device(dev[t]) = NoDevice
       THEN Exit(t)
       ELSE /\ pc' = [pc EXCEPT ![t] = "register"]
            /\ obj' = [obj EXCEPT ![t] = get_device(dev[t])]
            /\ UNCHANGED dev
    /\ UNCHANGED <<registry, nobjects, running, stop_returned, threads,
                   nthreads, tick, connected,
                   raised, reconnectVars, outsideVars>>

\* self.threads[device_id] = thread_local
device_thread_register(t) ==
    /\ pc[t] = "register"
    /\ threads' = [threads EXCEPT ![dev[t]] = t]
    /\ pc' = [pc EXCEPT ![t] = "top"]
    /\ UNCHANGED <<registry, nobjects, running, stop_returned, local_running,
                   nthreads, dev, obj, tick, connected,
                   raised, reconnectVars, outsideVars>>

\* `thread_local.running and self.running`, as the worker itself reads it
LoopCondition(t) == local_running[t].worker = "True" /\ running

\* while thread_local.running and self.running:
loop_top(t) ==
    /\ pc[t] = "top"
    /\ IF LoopCondition(t)
       THEN /\ pc' = [pc EXCEPT ![t] = "gen"]
            /\ UNCHANGED <<dev, obj>>
       ELSE Exit(t)
    /\ UNCHANGED <<registry, nobjects, running, stop_returned, threads,
                   local_running, nthreads, tick, connected,
                   raised, reconnectVars, outsideVars>>

\* a loop without the try/except: the exception ends the thread
TickError_Uncaught(t, what) ==
    /\ pc' = [pc EXCEPT ![t] = "done"]
    /\ tick' = [tick EXCEPT ![t] = what]

\* except Exception as e: log; the loop goes on to time.sleep(interval)
TickError(t, what) ==
    /\ pc' = [pc EXCEPT ![t] = "sleep"]
    /\ tick' = [tick EXCEPT ![t] = what]

\* telemetry = device.generate_telemetry(); `raises`: it raises an exception
\* (the sample itself is left to the caller of this definition)
generate_step(t, raises) ==
    /\ pc[t] = "gen"
    /\ IF raises
       THEN TickError(t, "gen_error")
       ELSE /\ pc' = [pc EXCEPT ![t] = "pub"]
            /\ UNCHANGED tick
    /\ UNCHANGED <<registry, nobjects, running, stop_returned, threads,
                   local_running, nthreads, dev, obj, connected,
                   raised, reconnectVars, ingestVars, sensorVars, addedVars>>

\* the generation step of a worker, the sample not followed any further
generate(t, raises) ==
    /\ generate_step(t, raises)
    /\ UNCHANGED pipeVars

\* publish_telemetry(device_id, telemetry): False when the device is not in
\* the registry, when result.rc != 0 and when client.publish raises
publish_telemetry(d, rc_ok) == get_device(d) # NoDevice /\ rc_ok

\* self.publish_telemetry(device_id, telemetry); its result is not read
\* (the message itself is left to the caller of this definition)
publish_step(t, rc_ok) ==
    /\ pc[t] = "pub"
    /\ pc' = [pc EXCEPT ![t] = "sleep"]
    /\ tick' = [tick EXCEPT ![t] = IF publish_telemetry(dev[t], rc_ok)
                                    THEN "published" ELSE "pub_failed"]
    /\ UNCHANGED <<registry, nobjects, running, stop_returned, threads,
                   local_running, nthreads, dev, obj, connected,
                   raised, reconnectVars, ingestVars, sensorVars, addedVars>>

\* the publish step of a worker, the message not followed any further
publish(t, rc_ok) ==
    /\ publish_step(t, rc_ok)
    /\ UNCHANGED pipeVars

\* time.sleep(interval)
sleep(t) ==
    /\ pc[t] = "sleep"
    /\ pc' = [pc EXCEPT ![t] = "top"]
    /\ tick' = [tick EXCEPT ![t] = "none"]
    /\ UNCHANGED <<registry, nobjects, running, stop_returned, threads,
                   local_running, nthreads, dev, obj, connected,
                   raised, reconnectVars, outsideVars>>

\* --------------------------------------------- _on_disconnect and _reconnect
\* the return codes the transport passes to _on_disconnect (0: deliberate)
ReturnCodes == {0, 1}

\* threading.Thread(target=self._reconnect).start()
SpawnReconnectThread ==
    /\ nreconnects < MaxReconnectThreads
    /\ nreconnects' = nreconnects + 1
    /\ rpc' = [rpc EXCEPT ![nreconnects + 1] = "top"]

\* `if rc != 0:` of _on_disconnect
Unexpected_Any(rc) == TRUE

Unexpected(rc) == rc # 0

\* _on_disconnect(client, userdata, rc): the connection has gone down
on_disconnect(rc) ==
    /\ connected
    /\ connected' = FALSE
    /\ IF Unexpected(rc)
       THEN SpawnReconnectThread
       ELSE UNCHANGED <<nreconnects, rpc>>
    /\ UNCHANGED <<outsideVars, registry, nobjects, running, stop_returned, raised,
                   threads,
                   local_running, nthreads, pc, dev, obj, tick, retries,
                   attempts, slept, rresult>>

\* a loop test that lets one more attempt through
RetryAllowed_OneMore(n) == n <= max_retries

\* `retries < max_retries`
RetryAllowed(n) == n < max_retries

\* while retries < max_retries: ... return False
reconnect_top(r) ==
    /\ rpc[r] = "top"
    /\ IF RetryAllowed(retries[r])
       THEN /\ rpc' = [rpc EXCEPT ![r] = "try"]
            /\ UNCHANGED rresult
       ELSE /\ rpc' = [rpc EXCEPT ![r] = "done"]
            /\ rresult' = [rresult EXCEPT ![r] = "False"]
    /\ UNCHANGED <<outsideVars, registry, nobjects, running, stop_returned, raised,
                   threads,
                   local_running, nthreads, pc, dev, obj, tick, connected,
                   nreconnects, retries, attempts, slept>>

\* self.client.reconnect(); return True / except: retries += 1
reconnect_try(r, ok) ==
    /\ rpc[r] = "try"
    /\ attempts' = [attempts EXCEPT ![r] = @ + 1]
    /\ IF ok
       THEN /\ connected' = TRUE
            /\ rpc' = [rpc EXCEPT ![r] = "done"]
            /\ rresult' = [rresult EXCEPT ![r] = "True"]
            /\ UNCHANGED retries
       ELSE /\ retries' = [retries EXCEPT ![r] = @ + 1]
            /\ rpc' = [rpc EXCEPT ![r] = "backoff"]
            /\ UNCHANGED <<connected, rresult>>
    /\ UNCHANGED <<outsideVars, registry, nobjects, running, stop_returned, raised,
                   threads,
                   local_running, nthreads, pc, dev, obj, tick, nreconnects,
                   slept>>

\* a backoff that starts at 2 ** 0
BackoffDelay_FromZero(n) == 2 ^ (n - 1)

\* 2 ** retries, read after `retries += 1`
BackoffDelay(n) == 2 ^ n

\* time.sleep(2 ** retries)
reconnect_backoff(r) ==
    /\ rpc[r] = "backoff"
    /\ slept' = [slept EXCEPT ![r] = Append(@, BackoffDelay(retries[r]))]
    /\ rpc' = [rpc EXCEPT ![r] = "top"]
    /\ UNCHANGED <<outsideVars, registry, nobjects, running, stop_returned, raised,
                   threads,
                   local_running, nthreads, pc, dev, obj, tick, connected,
                   nreconnects, retries, attempts, rresult>>

\* ------------------------------------------------------------------- calls
add_device_call(ty, d) ==
    /\ add_device(ty, d)
    /\ UNCHANGED <<running, stop_returned, threads, local_running, nthreads,
                   pc, dev, obj, tick, connected, reconnectVars, outsideVars>>

remove_device_call(d) ==
    /\ remove_device(d)
    /\ raised' = "none"
    /\ UNCHANGED <<nobjects, running, stop_returned, nthreads, pc, dev, obj,
                   tick, connected, reconnectVars, outsideVars>>

start_device_call(d) ==
    /\ start_device(d)
    /\ raised' = "none"
    /\ UNCHANGED <<registry, nobjects, running, stop_returned, threads,
                   local_running, obj, tick, connected, reconnectVars, outsideVars>>

stop_device_call(d) ==
    /\ stop_device(d)
    /\ raised' = "none"
    /\ UNCHANGED <<registry, nobjects, running, stop_returned, nthreads, pc,
                   dev, obj, tick, connected, reconnectVars, outsideVars>>

start_call(ok) ==
    /\ start(ok)
    /\ raised' = "none"
    /\ UNCHANGED <<registry, nobjects, threads, local_running, nthreads, pc,
                   dev, obj, tick, reconnectVars, outsideVars>>

stop_call ==
    /\ stop
    /\ raised' = "none"
    /\ UNCHANGED <<registry, nobjects, nthreads, pc, dev, obj, tick,
                   reconnectVars, outsideVars>>

Next ==
    \/ \E ty \in TypeInputs, d \in Devices : add_device_call(ty, d)
    \/ \E d \in Devices : remove_device_call(d)
    \/ \E d \in Devices : start_device_call(d)
    \/ \E d \in Devices : stop_device_call(d)
    \/ \E ok \in BOOLEAN : start_call(ok)
    \/ stop_call
    \/ \E t \in Threads : device_thread_lookup(t)
    \/ \E t \in Threads : device_thread_register(t)
    \/ \E t \in Threads : loop_top(t)
    \/ \E t \in Threads, raises \in BOOLEAN : generate(t, raises)
    \/ \E t \in Threads, rc_ok \in BOOLEAN : publish(t, rc_ok)
    \/ \E t \in Threads : sleep(t)

Spec == Init /\ [][Next]_vars

\* the simulator's MQTT client: connect and disconnect through start() and
\* stop(), connection losses, and the reconnect threads they start
NextReconnect ==
    \/ \E ok \in BOOLEAN : start_call(ok)
    \/ stop_call
    \/ \E rc \in ReturnCodes : on_disconnect(rc)
    \/ \E r \in ReconnectThreads : reconnect_top(r)
    \/ \E r \in ReconnectThreads, ok \in BOOLEAN : reconnect_try(r, ok)
    \/ \E r \in ReconnectThreads : reconnect_backoff(r)

SpecReconnect == Init /\ [][NextReconnect]_vars

\* ----------------------------------------------------- MQTTClient (ingestion)
\* the sample of a temperature device whose temperature is above 30
\* (32 degrees, 50 % humidity, 80 % battery; values in hundredths)
HotSample == [temperature |-> 3200, humidity |-> 5000, battery |-> 8000,
              status |-> "normal"]
\* a sample inside every threshold
MildSample == [temperature |-> 2500, humidity |-> 5000, battery |-> 8000,
               status |-> "normal"]

\* the `anomalies` list of a payload, each hint reduced to the value of its
\* 'severity' key: "absent" is a hint without that key, "urgent" a value that
\* is not a severity level; <<>> is a payload without hints
AnomalyInputs == {<<>>, <<"critical">>, <<"urgent">>, <<"absent">>,
                  <<"high", "low">>}

\* a 'timestamp' string that datetime.fromisoformat rejects
BadTimestamp == 0

\* the decoded JSON payloads
Payloads == [timestamp : {BadTimestamp, 1}, data : {HotSample},
             anomalies : AnomalyInputs]

\* msg.topic.split('/') of the topics messages arrive on: a known device, a
\* device that is not in the Device table, and a topic without a device part
IngestTopics == {<<"telemetry", "device-123">>, <<"telemetry", "ghost">>,
                 <<"telemetry">>}

\* the messages the broker hands to on_message (json_ok: msg.payload decodes)
IngestMessages ==
    [topic : IngestTopics, json_ok : {TRUE}, payload : Payloads]
    \cup {[topic |-> tp, json_ok |-> FALSE,
           payload |-> [timestamp |-> 1, data |-> MildSample, anomalies |-> <<>>]]
          : tp \in IngestTopics}

\* the call that raises while one message is processed (at most one per
\* message); k: which hint of the list the call is made for
Faults(payload) ==
    {[at |-> a, k |-> 0] : a \in {"none", "get_device", "create_telemetry",
                                  "save_last_seen", "send_device", "send_all"}}
    \cup {[at |-> a, k |-> k] :
             a \in {"create_anomaly", "anomaly_send_device", "anomaly_send_all"},
             k \in 1..Len(payload.anomalies)}

\* the calls whose failure is a persistence failure
PersistenceFaults == {"create_telemetry", "save_last_seen", "create_anomaly"}

\* the tables and groups as on_message finds them
CurrentDb == [tel |-> telemetry_rows, anom |-> anomaly_rows, seen |-> last_seen,
              grp |-> groups, raised |-> FALSE, log |-> "none"]

\* Device.objects.get(id=device_id) finds a row for every id, known or not
DeviceExists_Always(device_id) == TRUE

\* Device.objects.get(id=device_id) does not raise Device.DoesNotExist
DeviceExists(device_id) == device_id \in KnownDevices

\* a severity that ignores what the hint says
Severity_Default(hint) == "medium"

\* anomaly_data.get('severity', 'medium')
Severity(hint) == IF hint = "absent" THEN "medium" ELSE hint

\* the two group_send calls of broadcast_telemetry / broadcast_anomaly inside
\* their one try block: when the first raises the second is not made
group_sends(grp, device_id, event, fail_device, fail_all) ==
    IF fail_device
    THEN grp
    ELSE LET sent == [grp EXCEPT ![GroupOf(device_id)] = Append(@, event)]
         IN  IF fail_all
             THEN sent
             ELSE [sent EXCEPT !["telemetry_all"] = Append(@, event)]

\* broadcast_anomaly(device, anomaly)
broadcast_anomaly(grp, device_id, row, k, fault) ==
    group_sends(grp, device_id,
                [type |-> "anomaly_detected", id |-> row.id,
                 device_id |-> device_id],
                fault = [at |-> "anomaly_send_device", k |-> k],
                fault = [at |-> "anomaly_send_all", k |-> k])

\* broadcast_telemetry(device, telemetry)
broadcast_telemetry(grp, device_id, id, fault) ==
    group_sends(grp, device_id,
                [type |-> "telemetry_message", id |-> id,
                 device_id |-> device_id],
                fault.at = "send_device", fault.at = "send_all")

\* process_anomalies(device, telemetry, anomalies), from the k-th hint on
RECURSIVE process_anomalies(_, _, _, _, _, _)
process_anomalies(db, device_id, timestamp, anomalies, k, fault) ==
    IF k > Len(anomalies)
    THEN db
    ELSE IF fault = [at |-> "create_anomaly", k |-> k]
    THEN [db EXCEPT !.raised = TRUE]
    ELSE LET row == [id |-> Len(db.anom) + 1, device |-> device_id,
                     severity |-> Severity(anomalies[k]),
                     timestamp |-> timestamp]
             stored == [db EXCEPT !.anom = Append(@, row)]
             sent == [stored EXCEPT
                        !.grp = broadcast_anomaly(@, device_id, row, k, fault)]
         IN  process_anomalies(sent, device_id, timestamp, anomalies, k + 1,
                               fault)

\* Telemetry(device=..., timestamp=..., data=...) built but never saved
create_telemetry_Unsaved(db, row) == db

\* Telemetry.objects.create(device=device, timestamp=timestamp, data=...)
create_telemetry(db, row) == [db EXCEPT !.tel = Append(@, row)]

\* process_telemetry(device_id, payload); now: the clock reading it takes
process_telemetry(db, device_id, payload, fault, now) ==
    IF fault.at = "get_device"
    THEN [db EXCEPT !.log = "error_saving"]
    ELSE IF ~DeviceExists(device_id)
    THEN [db EXCEPT !.log = "device_not_found"]
    ELSE IF payload.timestamp = BadTimestamp \/ fault.at = "create_telemetry"
    THEN [db EXCEPT !.log = "error_saving"]
    ELSE
    LET row == [id |-> Len(db.tel) + 1, device |-> device_id,
                timestamp |-> payload.timestamp, data |-> payload.data]
        created == create_telemetry(db, row)
    IN  IF fault.at = "save_last_seen"
        THEN [created EXCEPT !.log = "error_saving"]
        ELSE
        LET saved == [created EXCEPT !.seen[device_id] = now]
            checked == IF payload.anomalies # <<>>
                       THEN process_anomalies(saved, device_id,
                                              payload.timestamp,
                                              payload.anomalies, 1, fault)
                       ELSE saved
        IN  IF checked.raised
            THEN [checked EXCEPT !.log = "error_saving"]
            ELSE [checked EXCEPT
                    !.grp = broadcast_telemetry(@, device_id, row.id, fault),
                    !.log = "processed"]

\* on_message(client, userdata, msg): what it does to the tables, the groups
\* and the log
on_message_effect(msg, fault) ==
    /\ nmsgs < MaxMessages
    /\ nmsgs' = nmsgs + 1
    /\ ingest_topic' = msg.topic
    /\ IF Len(msg.topic) < 2
       THEN /\ ingest_log' = "invalid_topic"
            /\ ingest_outcome' = "not_called"
            /\ UNCHANGED <<telemetry_rows, anomaly_rows, last_seen, groups>>
       ELSE IF ~msg.json_ok
       THEN /\ ingest_log' = "invalid_json"
            /\ ingest_outcome' = "not_called"
            /\ UNCHANGED <<telemetry_rows, anomaly_rows, last_seen, groups>>
       ELSE LET db == process_telemetry(CurrentDb, msg.topic[2], msg.payload,
                                        fault, nmsgs + 1)
            IN  /\ telemetry_rows' = db.tel
                /\ anomaly_rows' = db.anom
                /\ last_seen' = db.seen
                /\ groups' = db.grp
                /\ ingest_log' = db.log
                /\ ingest_outcome' = "returned"

\* on_message(client, userdata, msg) without the queue the message came from
on_message_step(msg, fault) ==
    /\ on_message_effect(msg, fault)
    /\ UNCHANGED <<registry, nobjects, running, stop_returned, raised, threads,
                   local_running, nthreads, pc, dev, obj, tick, connected,
                   reconnectVars, sensorVars, addedVars>>

\* on_message called by the client's network loop with a message that has
\* arrived on telemetry/#
on_message(msg, fault) ==
    /\ on_message_step(msg, fault)
    /\ UNCHANGED pipeVars

\* the ingestion client receiving messages, one on_message call at a time
NextIngest ==
    \E msg \in IngestMessages :
        \E fault \in Faults(msg.payload) : on_message(msg, fault)

SpecIngest == Init /\ [][NextIngest]_vars

\* ---------------------------------------------------------- TemperatureSensor
\* Temperatures, humidities and battery levels are integers in hundredths of
\* their unit (2 decimals, as round(x, 2) leaves them); noise factors and the
\* random draws are in percent.

\* config["noise_factor"]: 0.0, the default 0.05, and 1.0
NoiseFactors == {0, 5, 100}

\* random.random() * 2 - 1, a number in [-1, 1)
RandomDraws == {-100, 0, 99}

\* base_temperature + day_factor * daily_variation + hour_factor * hourly_noise:
\* between 19 - 5 - 0.5 and 22 + 5 + 0.5 degrees
RawTemperatures == {1350, 2000, 2750}

\* 100 - ((current_time % 2592000) / 2592000) * 20: above 80, at most 100
BatteryLevels == {8001, 10000}

\* random.randint(5, 20)
FailureDurations == 5..20

\* f"E{randint(1, 9)}{randint(0, 9)}{randint(0, 9)}"
ErrorCodes == {"E100", "E999"}

\* last_reading = None
NoReading == [status |-> "none"]

\* n / d rounded to the nearest integer
RoundDiv(n, d) == (2 * n + d) \div (2 * d)

\* add_noise(value): value + (random.random() * 2 - 1) * factor * value
add_noise(value, draw, factor) == value + RoundDiv(draw * factor * value, 10000)

\* max(30, min(95, humidity))
ClampHumidity(h) == IF h > 9500 THEN 9500 ELSE IF h < 3000 THEN 3000 ELSE h

\* the humidity of generate_telemetry for a temperature and a random draw
Humidity(temperature, draw, factor) ==
    add_noise(ClampHumidity(10000 - (temperature - 1000) * 2), draw, factor)

\* one hint of detect_anomalies ('description' and 'value' left out)
Hint(severity, threshold) == [severity |-> severity, threshold |-> threshold]

\* TemperatureSensor.detect_anomalies(data)
detect_anomalies_HighFirst(data) ==
    (IF data.temperature > 2800 THEN <<Hint("high", 2800)>>
     ELSE IF data.temperature > 3000 THEN <<Hint("critical", 3000)>>
     ELSE IF data.temperature < 1000 THEN <<Hint("high", 1000)>>
     ELSE <<>>)
    \o (IF data.humidity > 9000 THEN <<Hint("medium", 9000)>>
        ELSE IF data.humidity < 3500 THEN <<Hint("medium", 3500)>>
        ELSE <<>>)
    \o (IF data.battery < 2000 THEN <<Hint("low", 2000)>> ELSE <<>>)

detect_anomalies(data) ==
    (IF data.temperature > 3000 THEN <<Hint("critical", 3000)>>
     ELSE IF data.temperature > 2800 THEN <<Hint("high", 2800)>>
     ELSE IF data.temperature < 1000 THEN <<Hint("high", 1000)>>
     ELSE <<>>)
    \o (IF data.humidity > 9000 THEN <<Hint("medium", 9000)>>
        ELSE IF data.humidity < 3500 THEN <<Hint("medium", 3500)>>
        ELSE <<>>)
    \o (IF data.battery < 2000 THEN <<Hint("low", 2000)>> ELSE <<>>)

\* what the methods of a device object leave alone
sensorFrame == <<registry, nobjects, running, stop_returned, raised, threads,
                 local_running, nthreads, pc, dev, obj, tick, connected,
                 reconnectVars, ingestVars, pipeVars, addedVars>>

\* no failure has been drawn since the device last ran its physics model
NoEpisode == [drawn |-> 0, ticks |-> 0]

\* DeviceType.__init__(config={"noise_factor": nf}): the attributes every new
\* device object starts with
DeviceType_init(nf) ==
    /\ noise_factor' = nf
    /\ failure_state' = FALSE
    /\ failure_duration' = 0
    /\ last_reading' = NoReading
    /\ anomaly_counter' = 0
    /\ emitted' = [data |-> NoReading, anomalies |-> <<>>]
    /\ episode' = NoEpisode

\* TemperatureSensor(config={"noise_factor": nf}): a new sensor object
TemperatureSensor(nf) ==
    /\ DeviceType_init(nf)
    /\ params' = [kind |-> "temperature"]
    /\ UNCHANGED sensorFrame

\* simulate_failure(): True when this tick is a failure tick.  fails:
\* random.random() < self.failure_rate
simulate_failure_Quiet(fails) == fails

simulate_failure(fails) == failure_state \/ fails

\* if self.failure_duration <= 0: the failure ends with this tick
FailureOver_Late(duration) == duration < 0

FailureOver(duration) == duration <= 0

\* simulate_failure with the drawn duration shortened by the injection tick
simulate_failure_step_Short(fails, duration) ==
    IF ~failure_state /\ fails
    THEN /\ failure_state' = TRUE
         /\ failure_duration' = duration - 1
         /\ episode' = [drawn |-> duration, ticks |-> 0]
    ELSE IF failure_state
    THEN /\ failure_duration' = failure_duration - 1
         /\ failure_state' = ~FailureOver(failure_duration - 1)
         /\ episode' = [episode EXCEPT !.ticks = @ + 1]
    ELSE /\ UNCHANGED <<failure_state, failure_duration>>
         /\ episode' = NoEpisode

\* simulate_failure(): what the call does to the failure attributes.
\* duration: random.randint(5, 20)
simulate_failure_step(fails, duration) ==
    IF ~failure_state /\ fails
    THEN /\ failure_state' = TRUE
         /\ failure_duration' = duration
         /\ episode' = [drawn |-> duration, ticks |-> 0]
    ELSE IF failure_state
    THEN /\ failure_duration' = failure_duration - 1
         /\ failure_state' = ~FailureOver(failure_duration - 1)
         /\ episode' = [episode EXCEPT !.ticks = @ + 1]
    ELSE /\ UNCHANGED <<failure_state, failure_duration>>
         /\ episode' = NoEpisode

\* TemperatureSensor.generate_telemetry(), simulate_failure() included
generate_telemetry(fails, duration, code, raw, draw_t, draw_h, battery_level) ==
    /\ params.kind = "temperature"
    /\ simulate_failure_step(fails, duration)
    /\ IF simulate_failure(fails)
       THEN /\ emitted' = [data |-> [status |-> "error", error_code |-> code],
                           anomalies |-> <<>>]
            /\ UNCHANGED last_reading
       ELSE LET temperature == add_noise(raw, draw_t, noise_factor)
                data == [temperature |-> temperature,
                         humidity |-> Humidity(temperature, draw_h, noise_factor),
                         battery |-> battery_level,
                         status |-> "normal"]
            IN  /\ emitted' = [data |-> data,
                               anomalies |-> detect_anomalies(data)]
                /\ last_reading' = data
    /\ UNCHANGED <<noise_factor, anomaly_counter, params, sensorFrame>>

\* the random draws one generate_telemetry call makes: a failure tick draws a
\* duration (when the failure starts) and an error code, a normal tick draws
\* the two noises; the draws a tick does not make are fixed here
TickDraws ==
    [fails : {f \in BOOLEAN : simulate_failure(f)},
     duration : IF failure_state THEN {5} ELSE FailureDurations,
     code : ErrorCodes, raw : {2000}, draw_t : {0}, draw_h : {0},
     battery_level : {10000}]
    \cup
    [fails : {f \in BOOLEAN : ~simulate_failure(f)},
     duration : {5}, code : {"E100"}, raw : RawTemperatures,
     draw_t : RandomDraws, draw_h : RandomDraws,
     battery_level : BatteryLevels]

\* one temperature sensor, rebuilt with another configuration at any time and
\* asked for telemetry tick after tick
NextTemperature ==
    \/ \E nf \in NoiseFactors : TemperatureSensor(nf)
    \/ \E draws \in TickDraws :
          generate_telemetry(draws.fails, draws.duration, draws.code, draws.raw,
                             draws.draw_t, draws.draw_h, draws.battery_level)

SpecTemperature == Init /\ [][NextTemperature]_vars

\* ------------------------------------------- from the worker to the fan-out
\* json.dumps(telemetry) published on f"telemetry/{device_id}": the sample
\* with generation number n, its timestamp
SampleMessage(d, n) ==
    [topic |-> <<"telemetry", d>>, json_ok |-> TRUE,
     payload |-> [timestamp |-> n, data |-> MildSample, anomalies |-> <<>>]]

\* telemetry = device.generate_telemetry(): the worker holds the next sample
generate_sample(t, raises) ==
    /\ raises \/ gen_count < MaxSamples
    /\ generate_step(t, raises)
    /\ IF raises
       THEN UNCHANGED pipeVars
       ELSE /\ gen_count' = gen_count + 1
            /\ held' = [held EXCEPT ![t] = gen_count + 1]
            /\ UNCHANGED topic_queue

\* self.client.publish(topic, payload): the broker keeps the order in which
\* the messages of one topic were published
publish_sample(t, rc_ok) ==
    /\ publish_step(t, rc_ok)
    /\ topic_queue' = IF publish_telemetry(dev[t], rc_ok)
                      THEN Append(topic_queue, SampleMessage(dev[t], held[t]))
                      ELSE topic_queue
    /\ held' = [held EXCEPT ![t] = 0]
    /\ UNCHANGED gen_count

\* on_message called with the oldest message in flight
on_message_queued(fault) ==
    /\ topic_queue # <<>>
    /\ on_message_step(Head(topic_queue), fault)
    /\ topic_queue' = Tail(topic_queue)
    /\ UNCHANGED <<gen_count, held>>

\* the calls that may raise while the oldest message in flight is processed
QueuedFaults ==
    IF topic_queue = <<>> THEN {} ELSE Faults(Head(topic_queue).payload)

\* the simulator, the topic of its device and the ingestion client together
NextPipeline ==
    \/ \E ty \in DEVICE_TYPES, d \in Devices : add_device_call(ty, d)
    \/ \E d \in Devices : remove_device_call(d)
    \/ \E d \in Devices : start_device_call(d)
    \/ \E d \in Devices : stop_device_call(d)
    \/ \E ok \in BOOLEAN : start_call(ok)
    \/ stop_call
    \/ \E t \in Threads : device_thread_lookup(t)
    \/ \E t \in Threads : device_thread_register(t)
    \/ \E t \in Threads : loop_top(t)
    \/ \E t \in Threads, raises \in BOOLEAN : generate_sample(t, raises)
    \/ \E t \in Threads, rc_ok \in BOOLEAN : publish_sample(t, rc_ok)
    \/ \E t \in Threads : sleep(t)
    \/ \E fault \in QueuedFaults : on_message_queued(fault)

SpecPipeline == Init /\ [][NextPipeline]_vars

\* ---------------------------------- detect_anomalies of the device types
\* Velocities are integers in thousandths of a mm/s (round(x, 3)), flow
\* rates, pressures and volumes in hundredths, anomaly_counter in fifths.

\* data[f] for a key the dict does not have raises KeyError
KeyError(data, fields) == \E f \in fields : f \notin DOMAIN data

\* how a detect_anomalies call came back
Returned(anomalies) == [raised |-> "none", anomalies |-> anomalies]
Raised(exception) == [raised |-> exception, anomalies |-> <<>>]

\* TemperatureSensor.detect_anomalies(data), a dict of any shape
TemperatureSensor_detect_anomalies(data) ==
    IF KeyError(data, {"temperature", "humidity", "battery"})
    THEN Raised("KeyError")
    ELSE Returned(detect_anomalies(data))

\* VibrationSensor.detect_anomalies(data) past its first test, for a sample
\* of the physics model; counter: self.anomaly_counter
vibration_anomalies_Ungraded(data, counter) ==
    (IF data.velocity_rms > 11000 THEN <<Hint("critical", 11000)>> ELSE <<>>)
    \o (IF data.velocity_rms > 7100 THEN <<Hint("high", 7100)>> ELSE <<>>)
    \o (IF data.velocity_rms > 4500 /\ counter > 25
        THEN <<Hint("medium", 4500)>> ELSE <<>>)
    \o (IF data.temperature > 8000 THEN <<Hint("critical", 8000)>> ELSE <<>>)
    \o (IF data.temperature > 7000 THEN <<Hint("high", 7000)>> ELSE <<>>)

vibration_anomalies(data, counter) ==
    (IF data.velocity_rms > 11000 THEN <<Hint("critical", 11000)>>
     ELSE IF data.velocity_rms > 7100 THEN <<Hint("high", 7100)>>
     ELSE IF data.velocity_rms > 4500 /\ counter > 25
     THEN <<Hint("medium", 4500)>>
     ELSE <<>>)
    \o (IF data.temperature > 8000 THEN <<Hint("critical", 8000)>>
        ELSE IF data.temperature > 7000 THEN <<Hint("high", 7000)>>
        ELSE <<>>)

\* VibrationSensor.detect_anomalies(data), a dict of any shape
VibrationSensor_detect_anomalies(data, counter) ==
    IF KeyError(data, {"machine_state"})
    THEN Raised("KeyError")
    ELSE IF data.machine_state \notin {"on", "starting"}
    THEN Returned(<<>>)
    ELSE IF KeyError(data, {"velocity_rms", "temperature"})
    THEN Raised("KeyError")
    ELSE Returned(vibration_anomalies(data, counter))

\* self.target_flow_rate * 0.2 and * 1.8, self.base_pressure * 1.5
LowFlow(p) == (p.target_flow_rate * 2) \div 10
HighFlow(p) == (p.target_flow_rate * 18) \div 10
HighPressure(p) == (p.base_pressure * 15) \div 10

\* the branch of the temperature test FlowMeter.detect_anomalies takes for
\* self.fluid_type: its severity and threshold ("gas" has none)
FluidCeiling(fluid_type) ==
    CASE fluid_type = "water" -> <<Hint("medium", 4000)>>
      [] fluid_type = "oil" -> <<Hint("high", 8000)>>
      [] fluid_type = "coolant" -> <<Hint("high", 6000)>>
      [] OTHER -> <<>>

\* FlowMeter.detect_anomalies(data) for a sample of the physics model;
\* p: the attributes the constructor drew
flow_anomalies(data, p) ==
    (IF data.flow_rate < LowFlow(p) THEN <<Hint("high", LowFlow(p))>>
     ELSE IF data.flow_rate > HighFlow(p) THEN <<Hint("high", HighFlow(p))>>
     ELSE <<>>)
    \o (IF data.pressure < 100 THEN <<Hint("critical", 100)>>
        ELSE IF data.pressure > HighPressure(p)
        THEN <<Hint("high", HighPressure(p))>>
        ELSE <<>>)
    \o (IF FluidCeiling(p.fluid_type) # <<>>
           /\ data.temperature > FluidCeiling(p.fluid_type)[1].threshold
        THEN FluidCeiling(p.fluid_type)
        ELSE <<>>)

\* FlowMeter.detect_anomalies(data), a dict of any shape: data["temperature"]
\* is evaluated only behind a fluid type that has a ceiling
FlowMeter_detect_anomalies(data, p) ==
    IF KeyError(data, {"flow_rate", "pressure"})
       \/ (FluidCeiling(p.fluid_type) # <<>> /\ KeyError(data, {"temperature"}))
    THEN Raised("KeyError")
    ELSE Returned(flow_anomalies([flow_rate |-> data.flow_rate,
                                  pressure |-> data.pressure,
                                  temperature |->
                                      IF KeyError(data, {"temperature"})
                                      THEN 0 ELSE data.temperature], p))

\* the dicts detect_anomalies is called with: samples of the physics model
\* around each threshold, and the dict a failure tick returns
TemperatureSamples ==
    [temperature : {900, 2000, 2900, 3100}, humidity : {3000, 6000, 9500},
     battery : {1500, 9000}, status : {"normal"}]
    \cup {[status |-> "error", error_code |-> "E100"]}

VibrationSamples ==
    [machine_state : {"on", "off", "starting", "stopping"},
     velocity_rms : {1000, 5000, 8000, 12000},
     temperature : {5000, 7500, 8500}]
    \cup {[machine_state |-> "fault", error_code |-> "F100"]}

\* self.anomaly_counter: 0 and 6.0
AnomalyCounters == {0, 30}

\* random.choice(["water", "oil", "gas", "coolant"]), uniform(10, 100) L/min
\* and uniform(2, 10) bar
FlowParams ==
    [kind : {"flow"}, fluid_type : {"water", "oil", "gas", "coolant"},
     target_flow_rate : {1000, 10000}, base_pressure : {200, 1000}]

FlowSamples(p) ==
    [flow_rate : {100, 5000, 20000}, pressure : {50, 250, 1600},
     temperature : {2000, 5000, 9000}, fluid_type : {p.fluid_type},
     status : {"normal"}]
    \cup {[status |-> "error", error_code |-> "E100",
           fluid_type |-> p.fluid_type]}

\* what a detect_anomalies call changes: nothing of the device object
detectFrame == <<registry, nobjects, running, stop_returned, raised, threads,
                 local_running, nthreads, pc, dev, obj, tick, connected,
                 reconnectVars, ingestVars, pipeVars, sensorVars, socketVars,
                 clientVars>>

\* one detect_anomalies call on an object of each class
detect_temperature(data) ==
    /\ detected' = [kind |-> "temperature", data |-> data, counter |-> 0,
                    params |-> [kind |-> "temperature"],
                    result |-> TemperatureSensor_detect_anomalies(data)]
    /\ UNCHANGED detectFrame

detect_vibration(data, counter) ==
    /\ detected' = [kind |-> "vibration", data |-> data, counter |-> counter,
                    params |-> [kind |-> "vibration"],
                    result |-> VibrationSensor_detect_anomalies(data, counter)]
    /\ UNCHANGED detectFrame

detect_flow(data, p) ==
    /\ detected' = [kind |-> "flow", data |-> data, counter |-> 0,
                    params |-> p,
                    result |-> FlowMeter_detect_anomalies(data, p)]
    /\ UNCHANGED detectFrame

NextDetect ==
    \/ \E data \in TemperatureSamples : detect_temperature(data)
    \/ \E data \in VibrationSamples, counter \in AnomalyCounters :
          detect_vibration(data, counter)
    \/ \E p \in FlowParams : \E data \in FlowSamples(p) : detect_flow(data, p)

SpecDetect == Init /\ [][NextDetect]_vars

\* ------------------------------------------------------------ VibrationSensor
\* the most harmonics in a row the model lets a sensor draw, in fifths of
\* anomaly_counter: enough to pass anomaly_counter > 5
MaxAnomalyCounter == 30

\* VibrationSensor(): a new sensor object with the default configuration
VibrationSensor ==
    /\ DeviceType_init(5)
    /\ params' = [kind |-> "vibration"]
    /\ UNCHANGED sensorFrame

\* data.get("machine_state") of a reading, None when there is none
StateOf(data) ==
    IF "machine_state" \in DOMAIN data THEN data.machine_state ELSE "none"

\* `states` of generate_telemetry: what random.choices can return after the
\* last reading
MachineStates_Free(reading) == {"on", "off", "starting", "stopping"}

MachineStates(reading) ==
    IF StateOf(reading) = "starting" THEN {"on", "starting"}
    ELSE IF StateOf(reading) = "stopping" THEN {"off", "stopping"}
    ELSE {"on", "off", "starting", "stopping"}

\* velocity_rms of each machine state, the least and the most that
\* base_amplitude in [0.5, 2.0] and the noise allow
VelocityDraws(state) ==
    CASE state = "on" -> {325, 2150}
      [] state = "starting" -> {675, 6500}
      [] state = "stopping" -> {210, 1800}
      [] OTHER -> {50, 150}

\* temperature of each machine state
VibrationTemperatures(state) ==
    CASE state = "on" -> {5408}
      [] state = "starting" -> {3499}
      [] state = "stopping" -> {3999}
      [] OTHER -> {2200}

\* VibrationSensor.generate_telemetry(), simulate_failure() included.
\* harmonic: random.random() < 0.05
VibrationSensor_generate_telemetry(fails, duration, state, harmonic, velocity, temperature) ==
    /\ params.kind = "vibration"
    /\ simulate_failure_step(fails, duration)
    /\ IF simulate_failure(fails)
       THEN /\ emitted' = [data |-> [machine_state |-> "fault",
                                     error_code |-> "F100"],
                           anomalies |-> <<>>]
            /\ UNCHANGED <<last_reading, anomaly_counter>>
       ELSE LET counter == IF state = "on" /\ harmonic
                           THEN anomaly_counter + 5
                           ELSE IF anomaly_counter > 0
                           THEN anomaly_counter - 1 ELSE 0
                data == [velocity_rms |-> velocity,
                         temperature |-> temperature,
                         machine_state |-> state]
            IN  /\ state \in MachineStates(last_reading)
                /\ velocity \in VelocityDraws(state)
                /\ temperature \in VibrationTemperatures(state)
                /\ counter <= MaxAnomalyCounter
                /\ anomaly_counter' = counter
                /\ emitted' =
                       [data |-> data,
                        anomalies |->
                            VibrationSensor_detect_anomalies(data, counter).anomalies]
                /\ last_reading' = data
    /\ UNCHANGED <<noise_factor, params, sensorFrame>>

\* the random draws one VibrationSensor.generate_telemetry call makes
VibrationDraws ==
    [fails : {f \in BOOLEAN : simulate_failure(f)},
     duration : IF failure_state THEN {5} ELSE FailureDurations,
     state : {"on"}, harmonic : {FALSE}, velocity : {325},
     temperature : {5408}]
    \cup
    UNION {[fails : {f \in BOOLEAN : ~simulate_failure(f)}, duration : {5},
            state : {st}, harmonic : IF st = "on" THEN BOOLEAN ELSE {FALSE},
            velocity : VelocityDraws(st),
            temperature : VibrationTemperatures(st)] :
           st \in MachineStates(last_reading)}

\* one vibration sensor, replaced by a new one at any time and asked for
\* telemetry tick after tick
NextVibration ==
    \/ VibrationSensor
    \/ \E draws \in VibrationDraws :
          VibrationSensor_generate_telemetry(draws.fails, draws.duration,
                                             draws.state, draws.harmonic,
                                             draws.velocity, draws.temperature)

SpecVibration == Init /\ [][NextVibration]_vars

\* ------------------------------------------------------------------ FlowMeter
\* the volume, in hundredths of a litre, the model lets a meter add to its
\* first total_flow
MaxFlowed == 500

\* random.uniform(10000, 50000), the total_flow of the first reading
InitialTotals == {1000000}

\* flow_factor after `flow_factor += random.uniform(-0.1, 0.1)`, in percent:
\* the least (night) and the most (morning peak)
FlowFactors == {50, 130}

\* the configurations of the meters that are run: water at 100 L/min
FlowConfigs == {p \in FlowParams : p.target_flow_rate = 10000
                                   /\ p.fluid_type = "water"}

\* FlowMeter(config={"noise_factor": nf}): a new meter; p: what the
\* constructor drew
FlowMeter(nf, p) ==
    /\ DeviceType_init(nf)
    /\ params' = p
    /\ UNCHANGED sensorFrame

\* base_temp of the fluid type
BaseTemp(fluid_type) ==
    CASE fluid_type = "water" -> 1500
      [] fluid_type = "oil" -> 4500
      [] fluid_type = "coolant" -> 3000
      [] OTHER -> 2500

\* self.last_reading.get("total_flow", 0)
LastTotal_Reset(reading) == 0

LastTotal(reading) ==
    IF "total_flow" \in DOMAIN reading THEN reading.total_flow ELSE 0

\* the status generate_telemetry gives a flow rate
FlowStatus(flow_rate, p) ==
    IF flow_rate < (p.target_flow_rate * 3) \div 10 THEN "low_flow"
    ELSE IF flow_rate > (p.target_flow_rate * 15) \div 10 THEN "high_flow"
    ELSE "normal"

\* FlowMeter.generate_telemetry(), simulate_failure() included.  factor: the
\* flow factor of the hour with its variation; first: the total_flow drawn
\* for a first reading
FlowMeter_generate_telemetry(fails, duration, factor, draw_f, draw_p, draw_t, first) ==
    /\ params.kind = "flow"
    /\ simulate_failure_step(fails, duration)
    /\ IF simulate_failure(fails)
       THEN /\ emitted' = [data |-> [status |-> "error", error_code |-> "E100",
                                     fluid_type |-> params.fluid_type],
                           anomalies |-> <<>>]
            /\ UNCHANGED last_reading
       ELSE LET flow_rate ==
                    add_noise(RoundDiv(params.target_flow_rate * factor, 100),
                              draw_f, noise_factor)
                dropped == params.base_pressure - RoundDiv(5 * flow_rate, 100)
                pressure == add_noise(IF dropped < 50 THEN 50 ELSE dropped,
                                      draw_p, noise_factor)
                temperature == add_noise(BaseTemp(params.fluid_type)
                                             - RoundDiv(2 * flow_rate, 100),
                                         draw_t, noise_factor)
                total_flow == IF last_reading # NoReading
                              THEN LastTotal(last_reading)
                                       + RoundDiv(flow_rate, 60)
                              ELSE first
                data == [flow_rate |-> flow_rate, pressure |-> pressure,
                         temperature |-> temperature,
                         total_flow |-> total_flow,
                         fluid_type |-> params.fluid_type,
                         status |-> FlowStatus(flow_rate, params)]
            IN  /\ total_flow <= first + MaxFlowed
                /\ emitted' =
                       [data |-> data,
                        anomalies |->
                            FlowMeter_detect_anomalies(data, params).anomalies]
                /\ last_reading' = data
    /\ UNCHANGED <<noise_factor, anomaly_counter, params, sensorFrame>>

\* the random draws one FlowMeter.generate_telemetry call makes
FlowDraws ==
    [fails : {f \in BOOLEAN : simulate_failure(f)},
     duration : IF failure_state THEN {5} ELSE FailureDurations,
     factor : {100}, draw_f : {0}, draw_p : {0}, draw_t : {0},
     first : InitialTotals]
    \cup
    [fails : {f \in BOOLEAN : ~simulate_failure(f)}, duration : {5},
     factor : FlowFactors, draw_f : RandomDraws, draw_p : {0}, draw_t : {0},
     first : InitialTotals]

\* one flow meter, replaced by a new one at any time and asked for telemetry
\* tick after tick
NextFlow ==
    \/ \E nf \in NoiseFactors, p \in FlowConfigs : FlowMeter(nf, p)
    \/ \E draws \in FlowDraws :
          FlowMeter_generate_telemetry(draws.fails, draws.duration,
                                       draws.factor, draws.draw_f,
                                       draws.draw_p, draws.draw_t,
                                       draws.first)

SpecFlow == Init /\ [][NextFlow]_vars

\* ---------------------------------------------------------- TelemetryConsumer
\* A consumer is one websocket connection; its channel is its index.
\* self.groups is the empty list the base class leaves until connect assigns
\* it.  device_id "none" is None: the route without a device part, or a
\* command without a device_id.

\* what the calls on a consumer leave alone
socketFrame == <<registry, nobjects, running, stop_returned, raised, threads,
                 local_running, nthreads, pc, dev, obj, tick, connected,
                 reconnectVars, ingestVars, pipeVars, sensorVars, detectVars,
                 clientVars, ws_frames>>

\* self.groups as connect assigns it for the device id of the route
RouteGroups_Both(device_id) ==
    IF device_id # "none" THEN <<GroupOf(device_id), "telemetry_all">>
    ELSE <<"telemetry_all">>

RouteGroups(device_id) ==
    IF device_id # "none" THEN <<GroupOf(device_id)>> ELSE <<"telemetry_all">>

\* channel_layer.group_add(g, channel) for every g of a list
group_add_all(lyr, grps, c) ==
    [g \in SocketGroups |->
        IF \E i \in DOMAIN grps : grps[i] = g THEN lyr[g] \cup {c} ELSE lyr[g]]

\* channel_layer.group_discard(g, channel) for the first g of a list only
group_discard_all_First(lyr, grps, c) ==
    [g \in SocketGroups |->
        IF grps # <<>> /\ grps[1] = g THEN lyr[g] \ {c} ELSE lyr[g]]

\* channel_layer.group_discard(g, channel) for every g of a list
group_discard_all(lyr, grps, c) ==
    [g \in SocketGroups |->
        IF \E i \in DOMAIN grps : grps[i] = g THEN lyr[g] \ {c} ELSE lyr[g]]

\* list.remove(g): the list without the first g
RemoveFirst(grps, g) ==
    LET i == CHOOSE k \in DOMAIN grps :
                 grps[k] = g /\ \A j \in 1..(k - 1) : grps[j] # g
    IN  SubSeq(grps, 1, i - 1) \o SubSeq(grps, i + 1, Len(grps))

\* g in self.groups
InGroups_Never(grps, g) == FALSE

InGroups(grps, g) == \E i \in DOMAIN grps : grps[i] = g

\* TelemetryConsumer.connect() on the route whose kwargs hold device_id
consumer_connect(c, device_id) ==
    /\ ws_state[c] = "new"
    /\ ws_device_id' = [ws_device_id EXCEPT ![c] = device_id]
    /\ IF device_id # "none" /\ ~DeviceExists(device_id)
       THEN /\ ws_state' = [ws_state EXCEPT ![c] = "rejected"]
            /\ ws_last' = [ws_last EXCEPT ![c] =
                   [op |-> "connect", device_id |-> device_id, sent |-> "none"]]
            /\ UNCHANGED <<ws_groups, layer>>
       ELSE /\ ws_groups' = [ws_groups EXCEPT ![c] = RouteGroups(device_id)]
            /\ layer' = group_add_all(layer, RouteGroups(device_id), c)
            /\ ws_state' = [ws_state EXCEPT ![c] = "open"]
            /\ ws_last' = [ws_last EXCEPT ![c] =
                   [op |-> "connect", device_id |-> device_id,
                    sent |-> "connection_established"]]
    /\ UNCHANGED socketFrame

\* TelemetryConsumer.disconnect(close_code)
consumer_disconnect(c) ==
    /\ ws_state[c] \in {"open", "rejected"}
    /\ layer' = group_discard_all(layer, ws_groups[c], c)
    /\ ws_state' = [ws_state EXCEPT ![c] = "closed"]
    /\ ws_last' = [ws_last EXCEPT ![c] =
           [op |-> "disconnect", device_id |-> "none", sent |-> "none"]]
    /\ UNCHANGED <<ws_device_id, ws_groups, socketFrame>>

\* the commands a client sends; any other command is ignored
Commands == {"subscribe_device", "unsubscribe_device", "ping"}

\* TelemetryConsumer.receive_json({"command": command, "device_id": device_id})
receive_json(c, command, device_id) ==
    /\ ws_state[c] = "open"
    /\ LET group_name == GroupOf(device_id)
           joins == /\ command = "subscribe_device"
                    /\ device_id # "none"
                    /\ DeviceExists(device_id)
                    /\ ~InGroups(ws_groups[c], group_name)
           leaves == /\ command = "unsubscribe_device"
                     /\ InGroups(ws_groups[c], group_name)
       IN  /\ ws_groups' = [ws_groups EXCEPT ![c] =
                  IF joins THEN Append(@, group_name)
                  ELSE IF leaves THEN RemoveFirst(@, group_name)
                  ELSE @]
           /\ layer' = IF joins THEN group_add_all(layer, <<group_name>>, c)
                       ELSE IF leaves
                       THEN group_discard_all(layer, <<group_name>>, c)
                       ELSE layer
           /\ ws_last' = [ws_last EXCEPT ![c] =
                  [op |-> command, device_id |-> device_id,
                   sent |-> IF joins \/ leaves THEN "subscription_update"
                            ELSE "none"]]
    /\ UNCHANGED <<ws_state, ws_device_id, socketFrame>>

\* the device ids of routes and commands: the socket devices, None, and "all"
\* (the command {"device_id": "all"} names the group telemetry_all)
RouteDevices == SocketDevices \cup {"none"}
CommandDevices == SocketDevices \cup {"none", "all"}

\* the consumers of the websocket routes, each connected once
NextSocket ==
    \/ \E c \in Consumers, d \in RouteDevices : consumer_connect(c, d)
    \/ \E c \in Consumers : consumer_disconnect(c)
    \/ \E c \in Consumers, command \in Commands, d \in CommandDevices :
          receive_json(c, command, d)

SpecSocket == Init /\ [][NextSocket]_vars

\* ------------------------------------------- MQTTClient (ingestion): connection
\* conn_state: idle (no connection), connecting (the connect packet is out,
\* the broker has not answered), connected, refused (the broker answered
\* with a non-zero code), lost (the reconnect of on_disconnect raised).

\* what the connection callbacks leave alone
clientFrame == <<registry, nobjects, running, stop_returned, raised, threads,
                 local_running, nthreads, pc, dev, obj, tick, connected,
                 reconnectVars, ingestVars, pipeVars, sensorVars, detectVars,
                 socketVars>>

\* MQTTClient.connect(); ok: self.client.connect(...) does not raise
MQTTClient_connect(ok) ==
    /\ conn_state = "idle"
    /\ conn_state' = IF ok THEN "connecting" ELSE "idle"
    /\ conn_log' = IF ok THEN "connect_sent" ELSE "connect_failed"
    /\ reconnect_calls' = 0
    /\ UNCHANGED <<subscriptions, clientFrame>>

\* `if rc == 0:` of on_connect
Accepted_Any(rc) == TRUE

Accepted(rc) == rc = 0

\* MQTTClient.on_connect(client, userdata, flags, rc), called when the broker
\* answers a connect or a reconnect
MQTTClient_on_connect(rc) ==
    /\ conn_state = "connecting"
    /\ IF Accepted(rc)
       THEN /\ subscriptions' = subscriptions \cup {"telemetry/#"}
            /\ conn_log' = "subscribed"
       ELSE /\ conn_log' = "connect_refused"
            /\ UNCHANGED subscriptions
    /\ conn_state' = IF rc = 0 THEN "connected" ELSE "refused"
    /\ UNCHANGED <<reconnect_calls, clientFrame>>

\* MQTTClient.on_disconnect(client, userdata, rc); the broker forgets the
\* subscriptions of the session that ended.  reconnect_ok:
\* self.client.reconnect() does not raise
MQTTClient_on_disconnect(rc, reconnect_ok) ==
    /\ conn_state = "connected"
    /\ subscriptions' = {}
    /\ IF rc # 0
       THEN /\ reconnect_calls' = 1
            /\ conn_state' = IF reconnect_ok THEN "connecting" ELSE "lost"
            /\ conn_log' = IF reconnect_ok THEN "unexpected_disconnect"
                           ELSE "reconnect_failed"
       ELSE /\ reconnect_calls' = 0
            /\ conn_state' = "idle"
            /\ conn_log' = "none"
    /\ UNCHANGED clientFrame

\* on_message for a message the broker delivers on the subscription
MQTTClient_on_message(msg) ==
    /\ conn_state = "connected"
    /\ \E filter \in subscriptions : filter = "telemetry/#"
    /\ on_message_step(msg, [at |-> "none", k |-> 0])
    /\ UNCHANGED pipeVars

\* the ingestion client from connect() on: the answers of the broker, the
\* messages of the subscription, the ends of the connection
NextClient ==
    \/ \E ok \in BOOLEAN : MQTTClient_connect(ok)
    \/ \E rc \in ReturnCodes : MQTTClient_on_connect(rc)
    \/ \E rc \in ReturnCodes, ok \in BOOLEAN : MQTTClient_on_disconnect(rc, ok)
    \/ \E msg \in IngestMessages : MQTTClient_on_message(msg)

SpecClient == Init /\ [][NextClient]_vars

\* ------------------------------------------------ the three device types
\* a device of any of the three types: its construction and its ticks
NextDevices ==
    \/ NextTemperature
    \/ NextVibration
    \/ NextFlow

SpecDevices == Init /\ [][NextDevices]_vars

\* ------------------------------------- fan-out: from group_send to sockets
\* TelemetryConsumer.telemetry_message(event): the frame it sends
telemetry_message(event) ==
    [type |-> "telemetry",
     data |-> [id |-> event.id, device_id |-> event.device_id]]

\* TelemetryConsumer.anomaly_detected(event): the frame it sends
anomaly_detected(event) ==
    [type |-> "anomaly",
     data |-> [id |-> event.id, device_id |-> event.device_id]]

\* the handler an event is dispatched to by its 'type'
Dispatch(event) ==
    IF event.type = "telemetry_message" THEN telemetry_message(event)
    ELSE anomaly_detected(event)

\* the events the group_send calls of this step have put on group g
Sent(g) == SubSeq(groups'[g], Len(groups[g]) + 1, Len(groups'[g]))

\* the events sent in this step, to whatever group
SentEvents ==
    UNION {{Sent(g)[i] : i \in DOMAIN Sent(g)} : g \in GroupNames}

\* a channel layer that hands a channel one copy of an event however many of
\* its groups the event was sent to
Copies_Once(c, event) ==
    IF \E g \in GroupNames : c \in layer[g] /\ InGroups(Sent(g), event)
    THEN 1 ELSE 0

\* channel_layer.group_send(g, event) hands the event to every channel of g:
\* the copies of an event channel c is handed, one per group_send call on a
\* group that holds c
Copies(c, event) ==
    Cardinality({g \in GroupNames : c \in layer[g] /\ InGroups(Sent(g), event)})

\* the frames consumer c's handlers send for the events of this step, each
\* with the number of times it is sent
Frames(c) ==
    LET handed == {e \in SentEvents : Copies(c, e) > 0}
    IN  [f \in {Dispatch(e) : e \in handed} |->
            Copies(c, CHOOSE e \in handed : Dispatch(e) = f)]

\* on_message with the events it sends dispatched to the consumers' handlers
on_message_dispatched(msg, fault) ==
    /\ on_message_effect(msg, fault)
    /\ ws_frames' = [c \in Consumers |-> Frames(c)]
    /\ UNCHANGED <<ws_state, ws_device_id, ws_groups, ws_last, layer>>
    /\ UNCHANGED <<registry, nobjects, running, stop_returned, raised, threads,
                   local_running, nthreads, pc, dev, obj, tick, connected,
                   reconnectVars, pipeVars, sensorVars, detectVars, clientVars>>

\* the messages followed to the sockets: samples of one known device,
\* without hints and with one
FanoutMessages ==
    [topic : {<<"telemetry", "device-123">>}, json_ok : {TRUE},
     payload : [timestamp : {1}, data : {HotSample},
                anomalies : {<<>>, <<"critical">>}]]

\* the group_send call of broadcast_telemetry that raises, if any
FanoutFaults(payload) ==
    {f \in Faults(payload) :
        f.at \in {"none", "send_device", "send_all"}}

\* the consumer whose socket the events are followed to: the first one
Subscriber == CHOOSE c \in Consumers : \A other \in Consumers : c <= other

\* one websocket consumer and the ingestion client side by side
NextFanout ==
    \/ \E d \in RouteDevices : consumer_connect(Subscriber, d)
    \/ consumer_disconnect(Subscriber)
    \/ \E command \in Commands, d \in CommandDevices :
          receive_json(Subscriber, command, d)
    \/ \E msg \in FanoutMessages :
          \E fault \in FanoutFaults(msg.payload) :
              on_message_dispatched(msg, fault)

SpecFanout == Init /\ [][NextFanout]_vars

\* ------------------------------------------ publish_telemetry, step by step
\* publish_telemetry holds no lock between its registry lookup and its call of
\* the transport: the two are separate steps of the worker, and the callers'
\* operations can run in between.

\* `if not device:` of publish_telemetry
Registered_Always(d) == TRUE

Registered(d) == get_device(d) # NoDevice

\* device = self.registry.get_device(device_id); if not device: return False
publish_lookup(t) ==
    /\ pc[t] = "pub"
    /\ IF Registered(dev[t])
       THEN /\ pc' = [pc EXCEPT ![t] = "send"]
            /\ UNCHANGED tick
       ELSE /\ pc' = [pc EXCEPT ![t] = "sleep"]
            /\ tick' = [tick EXCEPT ![t] = "not_found"]
    /\ UNCHANGED <<registry, nobjects, running, stop_returned, threads,
                   local_running, nthreads, dev, obj, connected,
                   raised, reconnectVars, outsideVars>>

\* result = self.client.publish(topic, payload), and the test of result.rc
client_publish(t, rc_ok) ==
    /\ pc[t] = "send"
    /\ pc' = [pc EXCEPT ![t] = "sleep"]
    /\ tick' = [tick EXCEPT ![t] = IF rc_ok THEN "published" ELSE "pub_failed"]
    /\ UNCHANGED <<registry, nobjects, running, stop_returned, threads,
                   local_running, nthreads, dev, obj, connected,
                   raised, reconnectVars, outsideVars>>

\* the simulator with publish_telemetry taken in its two steps
NextPublish ==
    \/ \E ty \in TypeInputs, d \in Devices : add_device_call(ty, d)
    \/ \E d \in Devices : remove_device_call(d)
    \/ \E d \in Devices : start_device_call(d)
    \/ \E d \in Devices : stop_device_call(d)
    \/ \E ok \in BOOLEAN : start_call(ok)
    \/ stop_call
    \/ \E t \in Threads : device_thread_lookup(t)
    \/ \E t \in Threads : device_thread_register(t)
    \/ \E t \in Threads : loop_top(t)
    \/ \E t \in Threads, raises \in BOOLEAN : generate(t, raises)
    \/ \E t \in Threads : publish_lookup(t)
    \/ \E t \in Threads, rc_ok \in BOOLEAN : client_publish(t, rc_ok)
    \/ \E t \in Threads : sleep(t)

SpecPublish == Init /\ [][NextPublish]_vars

\* =================================================================== claims
\* worker t is inside the while loop of _device_thread
InLoop(t) == pc[t] \in {"top", "gen", "pub", "sleep"}

\* worker t has been started for device d and has not returned
LiveFor(t, d) ==
    /\ dev[t] = d
    /\ pc[t] \in {"spawned", "register", "top", "gen", "pub", "sleep"}

\* a caller has written running = False to worker t's threading.local object
StopRequested(t) == local_running[t].caller = "False"

\* worker t has passed the loop test and is inside an iteration
InTick(t) == pc[t] \in {"gen", "pub", "sleep"}

\* C1: for every device id, in every reachable state, at most one generation
\* loop for that device is live (counted here only while inside an iteration).
C1_AtMostOneLiveLoop ==
    \A d \in Devices :
        Cardinality({t \in Threads : InTick(t) /\ dev[t] = d}) <= 1

\* C2: after stop_device(id) has returned True for a device with a live loop
\* (the runtime still running, the device still registered), the loop observes
\* the request at the top of its next iteration: it does not start another tick.
C2_StopDeviceStopsLoop ==
    [][\A t \in Threads :
          (/\ pc[t] = "top"
           /\ running
           /\ StopRequested(t)
           /\ get_device(dev[t]) = obj[t])
          => pc'[t] # "gen"]_vars

\* C3: once stop() has completed, no loop starts another tick and the thread
\* table is and stays empty, also for a device whose start_device call was
\* issued just before stop().
C3_StopLeavesNoWorkers ==
    [][stop_returned' =>
          /\ \A d \in Devices : threads'[d] = NoThread
          /\ \A t \in Threads : pc[t] = "top" => pc'[t] # "gen"]_vars

\* C4: start_device(id) for a device that has already been started (a worker
\* for it was created and has not been asked to stop) returns success and
\* creates no additional worker, also before the first worker has registered.
C4_StartDeviceIdempotent ==
    [][\A d \in Devices :
          (/\ start_device_call(d)
           /\ \E t \in Threads : LiveFor(t, d) /\ ~StopRequested(t))
          => /\ start_device_result(d)
             /\ nthreads' = nthreads]_vars

\* C5: after remove_device(id) has returned True for a device with a live loop
\* (the runtime still running), the loop terminates at the top of its next
\* iteration: it does not start another tick.
C5_RemoveDeviceStopsLoop ==
    [][\A t \in Threads :
          (/\ pc[t] = "top"
           /\ running
           /\ StopRequested(t)
           /\ get_device(dev[t]) = NoDevice)
          => pc'[t] # "gen"]_vars

\* C6: in no reachable state are two workers inside generate_telemetry of the
\* same device object.
C6_SensorStateSingleWriter ==
    \A t1, t2 \in Threads :
        (t1 # t2 /\ pc[t1] = "gen" /\ pc[t2] = "gen") => obj[t1] # obj[t2]

\* C7: a tick whose generation raises or whose publish fails is followed by
\* the sleep and the next loop test; a worker leaves the loop only from the
\* loop test, and only when its own running flag or the runtime's is false.
C7_LoopSurvivesTickFailure ==
    [][\A t \in Threads :
          /\ (pc[t] = "gen" /\ pc'[t] # "gen") => pc'[t] \in {"pub", "sleep"}
          /\ (pc[t] = "pub" /\ pc'[t] # "pub") => pc'[t] = "sleep"
          /\ (pc[t] = "sleep" /\ pc'[t] # "sleep") => pc'[t] = "top"
          /\ (InLoop(t) /\ pc'[t] = "done")
                => /\ pc[t] = "top"
                   /\ ~(local_running[t].worker = "True" /\ running)]_vars

\* C7 witness: one worker sleeps after a tick whose generation raised and
\* another after a tick whose publish failed.
C7_Witness ==
    /\ \E t \in Threads : pc[t] = "sleep" /\ tick[t] = "gen_error"
    /\ \E t \in Threads : pc[t] = "sleep" /\ tick[t] = "pub_failed"

\* C8: add_device with a type outside {temperature, vibration, flow} raises the
\* unknown-type error and leaves the registry unchanged; with a known type it
\* registers exactly the one new device under its id and returns it.
C8_AddDeviceChecksType ==
    [][\A ty \in TypeInputs, d \in Devices :
          add_device_call(ty, d) =>
             IF ty \notin {"temperature", "vibration", "flow"}
             THEN raised' = "ValueError" /\ registry' = registry
             ELSE /\ raised' = "none"
                  /\ NewDevice(ty, d).type = ty
                  /\ NewDevice(ty, d).oid \notin {registry[e] : e \in Devices}
                  /\ registry' = [registry EXCEPT ![d] = NewDevice(ty, d).oid]]_vars

\* C8 witness: an add_device call has raised the unknown-type error while a
\* device added before is registered.
C8_Witness ==
    /\ raised = "ValueError"
    /\ \E d \in Devices : registry[d] # NoDevice /\ registry[d] = nobjects

\* the state of reconnect thread r
ReconnectState(r) == <<rpc[r], retries[r], attempts[r], slept[r], rresult[r]>>

\* C9: a reconnect loop makes at most 5 reconnect attempts: it returns at its
\* first successful attempt, and after the 5th failed attempt it makes no
\* further attempt and returns False; once it has returned it does nothing more.
C9_ReconnectGivesUp ==
    [][\A r \in ReconnectThreads :
          /\ attempts'[r] <= 5
          /\ rpc'[r] = "try" => attempts'[r] < 5
          /\ rresult'[r] = "True" =>
                rpc'[r] = "done" /\ attempts'[r] = retries'[r] + 1
          /\ rresult'[r] = "False" =>
                rpc'[r] = "done" /\ attempts'[r] = 5 /\ retries'[r] = 5
          /\ rpc'[r] = "done" => rresult'[r] \in {"True", "False"}
          /\ rpc[r] = "done" => ReconnectState(r)' = ReconnectState(r)]_vars

\* C9 witness: one reconnect loop has returned True after failed attempts and
\* another has given up after its 5th failed attempt.
C9_Witness ==
    /\ \E r \in ReconnectThreads : rresult[r] = "True" /\ attempts[r] > 1
    /\ \E r \in ReconnectThreads : rresult[r] = "False" /\ attempts[r] = 5

\* C10 as stated: the delays slept over the 5 failed attempts are 1, 2, 4, 8
\* and 16 seconds, in that order.
C10_BackoffFromOne ==
    \A r \in ReconnectThreads :
        rresult[r] = "False" => slept[r] = <<1, 2, 4, 8, 16>>

\* C10 amended: the delays slept over the 5 failed attempts are 2, 4, 8, 16
\* and 32 seconds, in that order: the k-th failed attempt (k from 1) is
\* followed by a sleep of 2^k seconds, the 5th one too.
C10_BackoffFromTwo ==
    \A r \in ReconnectThreads :
        /\ Len(slept[r]) = IF rpc[r] = "backoff" THEN retries[r] - 1 ELSE retries[r]
        /\ \A k \in 1..Len(slept[r]) : slept[r][k] = <<2, 4, 8, 16, 32>>[k]
        /\ rresult[r] = "False" => slept[r] = <<2, 4, 8, 16, 32>>

\* C10 witness: a reconnect loop has given up after 5 failed attempts.
C10_Witness ==
    \E r \in ReconnectThreads : rresult[r] = "False" /\ Len(slept[r]) = 5

\* what the owner of the runtime can observe of a DeviceSimulator: its
\* attributes and the exception its latest call raised
RuntimeObservable == <<running, threads, registry, raised>>

\* C11: the step by which a reconnect loop gives up (it returns False after
\* its last failed attempt) is surfaced to the owning runtime: the runtime
\* receives an error outcome or enters an error state it can observe.
C11_GiveUpSurfaced ==
    [][\A r \in ReconnectThreads :
          (rresult[r] # "False" /\ rresult'[r] = "False")
          => RuntimeObservable' # RuntimeObservable]_vars

\* no call raises while the message is processed
NoFault == [at |-> "none", k |-> 0]

\* the message of C12 on telemetry/device-123, with the given inline hints
HotMessage(hints) ==
    [topic |-> <<"telemetry", "device-123">>, json_ok |-> TRUE,
     payload |-> [timestamp |-> 1, data |-> HotSample, anomalies |-> hints]]

\* the 'severity' values of the hints a device model attaches to a sample
HintSeverities(hints) == [k \in 1..Len(hints) |-> hints[k].severity]

\* C12 as stated: ingesting the sample with temperature 32 on
\* telemetry/device-123, without inline hints, persists exactly one anomaly
\* row, with severity critical and device id device-123.
C12_HotSampleOneAnomaly ==
    [][on_message(HotMessage(<<>>), NoFault)
       => /\ Len(anomaly_rows') = Len(anomaly_rows) + 1
          /\ anomaly_rows'[Len(anomaly_rows')].severity = "critical"
          /\ anomaly_rows'[Len(anomaly_rows')].device = "device-123"]_vars

\* C12 amended: the same message persists no anomaly row when it carries no
\* inline hints, and exactly one row, severity critical and device id
\* device-123, when it carries the hints the temperature model attaches to
\* that sample (persistence succeeding in both cases).
C12_HotSampleByHints ==
    [][/\ on_message(HotMessage(<<>>), NoFault)
          => anomaly_rows' = anomaly_rows
       /\ on_message(HotMessage(HintSeverities(detect_anomalies(HotSample))),
                     NoFault)
          => /\ Len(anomaly_rows') = Len(anomaly_rows) + 1
             /\ SubSeq(anomaly_rows', 1, Len(anomaly_rows)) = anomaly_rows
             /\ anomaly_rows'[Len(anomaly_rows')].severity = "critical"
             /\ anomaly_rows'[Len(anomaly_rows')].device = "device-123"]_vars

\* C12 witness: the hot sample has been stored twice for device-123, once
\* without hints and once with the model's hint, and one anomaly row exists.
C12_Witness ==
    /\ Len(telemetry_rows) = 2
    /\ \A i \in 1..2 : /\ telemetry_rows[i].data = HotSample
                       /\ telemetry_rows[i].device = "device-123"
    /\ Len(anomaly_rows) = 1
    /\ anomaly_rows[1].severity = "critical"
    /\ ingest_log = "processed"

\* the events the channel layer has delivered to group g so far
Delivered(g) == {groups[g][i] : i \in 1..Len(groups[g])}

\* the event broadcast_telemetry sends for a Telemetry row
TelemetryEvent(row) ==
    [type |-> "telemetry_message", id |-> row.id, device_id |-> row.device]

\* the event broadcast_anomaly sends for an AnomalyDetection row
AnomalyEvent(row) ==
    [type |-> "anomaly_detected", id |-> row.id, device_id |-> row.device]

\* the events of the rows a step has added to the two tables
NewEvents ==
    {TelemetryEvent(telemetry_rows'[i]) :
        i \in (Len(telemetry_rows) + 1)..Len(telemetry_rows')}
    \cup {AnomalyEvent(anomaly_rows'[i]) :
             i \in (Len(anomaly_rows) + 1)..Len(anomaly_rows')}

\* C13: every sample and every anomaly that ingestion persists (for a message
\* whose processing meets no persistence failure) is delivered to both
\* telemetry_<device id> and telemetry_all, and no group of another device
\* receives anything.
C13_BothGroups ==
    [][ingest_log' = "processed"
       => /\ \A ev \in NewEvents :
                /\ ev \in Delivered(GroupOf(ev.device_id))'
                /\ ev \in Delivered("telemetry_all")'
          /\ \A g \in GroupNames :
                groups'[g] # groups[g]
                => \A ev \in NewEvents :
                      g \in {GroupOf(ev.device_id), "telemetry_all"}]_vars

\* C14: when the delivery to the device-specific group fails, the delivery of
\* the same event to telemetry_all still takes place.
C14_DeviceGroupFailureIsolated ==
    [][\A msg \in IngestMessages : \A fault \in Faults(msg.payload) :
          (/\ on_message(msg, fault)
           /\ fault.at \in {"send_device", "anomaly_send_device"}
           /\ ingest_log' = "processed")
          => \A ev \in NewEvents :
                ev \notin Delivered(GroupOf(ev.device_id))'
                => ev \in Delivered("telemetry_all")']_vars

\* C15: a message whose topic names a device that is not in the Device table
\* is dropped: no sample and no anomaly is persisted, no last-seen marker
\* changes, nothing is broadcast, and the message is not retried (it is handled
\* once, process_telemetry returns, and nothing is put back in flight); the
\* log says "Device not found" unless the payload or the lookup itself failed.
C15_UnknownDeviceDropped ==
    [][(/\ nmsgs' # nmsgs
        /\ Len(ingest_topic') >= 2
        /\ ingest_topic'[2] \notin KnownDevices)
       => /\ telemetry_rows' = telemetry_rows
          /\ anomaly_rows' = anomaly_rows
          /\ last_seen' = last_seen
          /\ groups' = groups
          /\ nmsgs' = nmsgs + 1
          /\ topic_queue' = topic_queue
          /\ ingest_log' \in {"device_not_found", "invalid_json", "error_saving"}
          /\ ingest_log' = "device_not_found" => ingest_outcome' = "returned"]_vars

\* C15 witness: a message of an unknown device has been dropped after a
\* message of a known device was stored and broadcast.
C15_Witness ==
    /\ ingest_log = "device_not_found"
    /\ ingest_topic = <<"telemetry", "ghost">>
    /\ nmsgs = 2
    /\ Len(telemetry_rows) = 1
    /\ last_seen["device-123"] = 1
    /\ Len(groups["telemetry_all"]) = 1

\* the telemetry events delivered to group g so far
TelemetryDelivered(g) == {ev \in Delivered(g) : ev.type = "telemetry_message"}

\* C16: every telemetry event delivered to a group is the event of a Telemetry
\* row stored before it was sent, and a message whose processing ends in a
\* persistence failure adds no telemetry event to any group.
C16_BroadcastOnlyPersisted ==
    [][/\ \A g \in GroupNames : \A ev \in TelemetryDelivered(g)' :
             \E i \in 1..Len(telemetry_rows') :
                TelemetryEvent(telemetry_rows'[i]) = ev
       /\ (nmsgs' # nmsgs /\ ingest_log' = "error_saving")
          => \A g \in GroupNames :
                TelemetryDelivered(g)' = TelemetryDelivered(g)]_vars

\* C16 witness: one sample was stored and broadcast, then a second sample was
\* stored but a later database call failed: its event is in no group.
C16_Witness ==
    /\ Len(telemetry_rows) = 2
    /\ ingest_log = "error_saving"
    /\ TelemetryDelivered("telemetry_all") = {TelemetryEvent(telemetry_rows[1])}
    /\ TelemetryDelivered("telemetry_device-123")
          = {TelemetryEvent(telemetry_rows[1])}

\* the messages of a known device that reach the database calls
StorableMessages ==
    {msg \in IngestMessages :
        /\ Len(msg.topic) >= 2
        /\ msg.topic[2] \in KnownDevices
        /\ msg.json_ok
        /\ msg.payload.timestamp # BadTimestamp}

\* C17: when storing the sample, saving the last-seen marker or storing an
\* anomaly fails, the failure comes back to the caller of process_telemetry
\* as an error (it raises), not as a normal return.
C17_PersistenceErrorPropagates ==
    [][\A msg \in StorableMessages : \A fault \in Faults(msg.payload) :
          (fault.at \in PersistenceFaults /\ on_message(msg, fault))
          => ingest_outcome' = "raised"]_vars

\* C18: the severity of every anomaly row ingestion has stored is one of low,
\* medium, high and critical, whatever payload was accepted.
C18_SeverityLevels ==
    \A i \in 1..Len(anomaly_rows) : anomaly_rows[i].severity \in SEVERITY_CHOICES

\* C20: the humidity of every normal sample a temperature sensor emits lies
\* between 30 and 95 (3000 and 9500 hundredths), for every noise factor.
C20_HumidityInRange ==
    emitted.data.status = "normal"
    => (3000 <= emitted.data.humidity /\ emitted.data.humidity <= 9500)

\* the Telemetry row with the given id
RowOf(id) == telemetry_rows[id]

\* C19: for each device, the samples are stored and broadcast in the order in
\* which they were generated, none twice: the generation timestamps of the
\* device's rows increase in storage order, and so do those of the telemetry
\* events in each group.
C19_OrderPreserved ==
    /\ \A i, j \in 1..Len(telemetry_rows) :
          (i < j /\ telemetry_rows[i].device = telemetry_rows[j].device)
          => telemetry_rows[i].timestamp < telemetry_rows[j].timestamp
    /\ \A g \in GroupNames : \A i, j \in 1..Len(groups[g]) :
          (/\ i < j
           /\ groups[g][i].type = "telemetry_message"
           /\ groups[g][j].type = "telemetry_message"
           /\ groups[g][i].device_id = groups[g][j].device_id)
          => RowOf(groups[g][i].id).timestamp < RowOf(groups[g][j].id).timestamp


\* a step in which generate_telemetry returned a sample (the constructor
\* leaves no sample behind)
TickStep == emitted'.data # NoReading

\* a payload of a failure tick: an error status or the fault state, an error
\* code, and no field of the physics model
ErrorShaped(data) ==
    /\ "error_code" \in DOMAIN data
    /\ \/ "status" \in DOMAIN data /\ data.status = "error"
       \/ "machine_state" \in DOMAIN data /\ data.machine_state = "fault"
    /\ DOMAIN data \subseteq {"status", "machine_state", "error_code", "fluid_type"}

\* C22: once a failure is injected with a drawn duration d in 5..20, the
\* device goes into each of the next d ticks with failure_state true and
\* leaves the d-th of them with failure_state false, and the injection tick
\* and every tick of that window return an error-shaped sample.
C22_FailureWindow ==
    [][TickStep =>
         /\ (~failure_state /\ failure_state') =>
                /\ episode' = [drawn |-> failure_duration', ticks |-> 0]
                /\ episode'.drawn \in FailureDurations
                /\ ErrorShaped(emitted'.data)
         /\ failure_state =>
                /\ ErrorShaped(emitted'.data)
                /\ episode'.ticks = episode.ticks + 1
                /\ failure_state' <=> episode'.ticks < episode'.drawn]_vars

\* the last tick of a failure window has run: d ticks after the draw of d
C22_Witness ==
    /\ ~failure_state
    /\ episode.drawn \in FailureDurations
    /\ episode.ticks = episode.drawn
    /\ ErrorShaped(emitted.data)

\* C23: between ticks failure_state implies failure_duration > 0; a tick of a
\* failed device decrements failure_duration by exactly one, and
\* failure_state is false after the tick that takes it to zero.
C23_FailureDuration ==
    /\ failure_state => failure_duration > 0
    /\ [][/\ failure_state' => failure_duration' > 0
          /\ (TickStep /\ failure_state) =>
                /\ failure_duration' = failure_duration - 1
                /\ failure_duration' = 0 => ~failure_state']_vars

\* a failed device has counted its duration down to zero and recovered
C23_Witness ==
    /\ ~failure_state
    /\ failure_duration = 0
    /\ episode.drawn > 0
    /\ params.kind = "temperature"

\* the elements of a sequence
Range(seq) == {seq[i] : i \in DOMAIN seq}

\* the latest detect_anomalies call was made on a sample of the physics
\* model of its class
WellFormed ==
    /\ detected.kind # "none"
    /\ ~ErrorShaped(detected.data)

\* C25: detect_anomalies of a Temperature device returns a critical anomaly
\* with threshold 30 for every sample whose temperature is above 30, and
\* evaluating the sample the call was made on again gives the sequence the
\* call returned.
C25_CriticalAbove30 ==
    (detected.kind = "temperature" /\ WellFormed) =>
        /\ detected.result = Returned(detect_anomalies(detected.data))
        /\ detected.data.temperature > 3000 =>
               Hint("critical", 3000) \in Range(detected.result.anomalies)

\* a Temperature sample of 31 degrees has been evaluated
C25_Witness ==
    /\ detected.kind = "temperature"
    /\ WellFormed
    /\ detected.data.temperature = 3100
    /\ detected.result.anomalies[1] = Hint("critical", 3000)

\* the threshold table of a device type for the sample and the device the
\* latest call was made on: per field, the rules in the order of the table,
\* each with its condition evaluated
Rule(holds, severity, threshold) ==
    [holds |-> holds, hint |-> Hint(severity, threshold)]

ThresholdTable ==
    LET data == detected.data
        p == detected.params
        active == data.machine_state \in {"on", "starting"}
    IN  CASE detected.kind = "temperature" ->
              << <<Rule(data.temperature > 3000, "critical", 3000),
                   Rule(data.temperature > 2800, "high", 2800),
                   Rule(data.temperature < 1000, "high", 1000)>>,
                 <<Rule(data.humidity > 9000, "medium", 9000),
                   Rule(data.humidity < 3500, "medium", 3500)>>,
                 <<Rule(data.battery < 2000, "low", 2000)>> >>
          [] detected.kind = "vibration" ->
              << <<Rule(active /\ data.velocity_rms > 11000, "critical", 11000),
                   Rule(active /\ data.velocity_rms > 7100, "high", 7100),
                   Rule(active /\ data.velocity_rms > 4500
                               /\ detected.counter > 25, "medium", 4500)>>,
                 <<Rule(active /\ data.temperature > 8000, "critical", 8000),
                   Rule(active /\ data.temperature > 7000, "high", 7000)>> >>
          [] detected.kind = "flow" ->
              << <<Rule(data.flow_rate < LowFlow(p), "high", LowFlow(p)),
                   Rule(data.flow_rate > HighFlow(p), "high", HighFlow(p))>>,
                 <<Rule(data.pressure < 100, "critical", 100),
                   Rule(data.pressure > HighPressure(p), "high",
                        HighPressure(p))>>,
                 <<Rule(p.fluid_type = "water" /\ data.temperature > 4000,
                        "medium", 4000),
                   Rule(p.fluid_type = "oil" /\ data.temperature > 8000,
                        "high", 8000),
                   Rule(p.fluid_type = "coolant" /\ data.temperature > 6000,
                        "high", 6000)>> >>

\* the hints of the rules of one field whose condition holds, in table order
RECURSIVE Holding(_)
Holding(rules) ==
    IF rules = <<>> THEN <<>>
    ELSE (IF Head(rules).holds THEN <<Head(rules).hint>> ELSE <<>>)
         \o Holding(Tail(rules))

\* per field the first rule that holds, the fields in table order
RECURSIVE FirstPerField(_)
FirstPerField(table) ==
    IF table = <<>> THEN <<>>
    ELSE (IF Holding(Head(table)) = <<>> THEN <<>>
          ELSE <<Head(Holding(Head(table)))>>)
         \o FirstPerField(Tail(table))

\* C26 as claimed: every rule of the threshold table whose condition the
\* sample satisfies has its anomaly in the sequence detect_anomalies returns.
C26_EveryRuleFires ==
    WellFormed =>
        \A f \in DOMAIN ThresholdTable :
            Range(Holding(ThresholdTable[f]))
                \subseteq Range(detected.result.anomalies)

\* C26: the rules of different fields are independent and the rules of one
\* field are graded: detect_anomalies returns, field by field in table order,
\* the anomaly of the first rule of that field whose condition holds, whatever
\* the rules of the other fields do.
C26_FirstRulePerField ==
    WellFormed => detected.result = Returned(FirstPerField(ThresholdTable))

\* a sample on which the rules of two fields fire at once and one of them
\* shadows a weaker rule of its own field
C26_Witness ==
    /\ WellFormed
    /\ detected.kind = "temperature"
    /\ detected.data.temperature > 3000
    /\ detected.data.humidity > 9000
    /\ detected.result.anomalies =
           <<Hint("critical", 3000), Hint("medium", 9000)>>

\* the fields the schema of each class expects a sample to have
ExpectedFields ==
    CASE detected.kind = "temperature" -> {"temperature", "humidity", "battery"}
      [] detected.kind = "vibration" ->
             {"machine_state", "velocity_rms", "temperature"}
      [] detected.kind = "flow" -> {"flow_rate", "pressure", "temperature"}
      [] OTHER -> {}

\* C27: detect_anomalies called on a sample that lacks an expected field
\* returns the empty list and does not raise.
C27_MalformedIsEmpty ==
    KeyError(detected.data, ExpectedFields) => detected.result = Returned(<<>>)

\* C24 as claimed: the sample a vibration sensor returns right after a
\* `starting` sample has machine_state on or starting, and the sample right
\* after a `stopping` sample has machine_state off or stopping.
C24_NextSampleContinues ==
    [][TickStep =>
         /\ StateOf(emitted.data) = "starting" =>
                StateOf(emitted'.data) \in {"on", "starting"}
         /\ StateOf(emitted.data) = "stopping" =>
                StateOf(emitted'.data) \in {"off", "stopping"}]_vars

\* C24: the sample right after a `starting` sample is on, starting or the
\* fault sample of a failure tick, and the first sample of the physics model
\* after a `starting` sample is on or starting, however many fault samples
\* lie between; likewise off, stopping or fault after a `stopping` sample.
C24_NextPhysicsSampleContinues ==
    [][TickStep =>
         /\ StateOf(emitted.data) = "starting" =>
                StateOf(emitted'.data) \in {"on", "starting", "fault"}
         /\ StateOf(emitted.data) = "stopping" =>
                StateOf(emitted'.data) \in {"off", "stopping", "fault"}
         /\ (StateOf(last_reading) = "starting"
             /\ StateOf(emitted'.data) # "fault") =>
                StateOf(emitted'.data) \in {"on", "starting"}
         /\ (StateOf(last_reading) = "stopping"
             /\ StateOf(emitted'.data) # "fault") =>
                StateOf(emitted'.data) \in {"off", "stopping"}
         /\ StateOf(emitted'.data) = "fault" => last_reading' = last_reading
         /\ StateOf(emitted'.data) # "fault" => last_reading' = emitted'.data]_vars

\* the failure window that followed a `starting` sample has just ended: the
\* fault samples came right after `starting`, the next tick draws again
C24_Witness ==
    /\ StateOf(last_reading) = "starting"
    /\ StateOf(emitted.data) = "fault"
    /\ ~failure_state
    /\ episode.drawn > 0

\* the reading has a cumulative volume (a sample of the flow model)
HasTotal(data) == "total_flow" \in DOMAIN data

\* C21: the total_flow of each sample of a FlowMeter is at least the
\* total_flow of the sample of the physics model before it, for every
\* noise_factor in [0, 1]; a failure tick leaves the last reading in place,
\* so the first total_flow after a failure window is at least the last one
\* before it.
C21_TotalFlowMonotone ==
    [][(TickStep /\ params.kind = "flow") =>
         /\ ErrorShaped(emitted'.data) => last_reading' = last_reading
         /\ HasTotal(emitted'.data) =>
                /\ last_reading' = emitted'.data
                /\ HasTotal(last_reading) =>
                       emitted'.data.total_flow >= last_reading.total_flow]_vars

\* a meter whose total has grown is in a failure window, the total that the
\* next sample of the physics model starts from still in place
C21_Witness ==
    /\ params.kind = "flow"
    /\ noise_factor = 100
    /\ HasTotal(last_reading)
    /\ \E first \in InitialTotals : last_reading.total_flow > first
    /\ ErrorShaped(emitted.data)
    /\ episode.ticks > 0

\* the groups of the channel layer that channel c is in
Membership(c) == {g \in SocketGroups : c \in layer[g]}

\* C28: right after connect, a consumer of the device route of an existing
\* device is in exactly the group telemetry_{device_id}, a consumer of the
\* catch-all route in exactly telemetry_all, and a consumer whose device does
\* not exist in no group; and a channel enters a group only in a connect on
\* the route of that group or in a subscribe_device command naming the
\* group's device.
C28_JoinsOnlyWhatItAsked ==
    /\ \A c \in Consumers : Membership(c) = {}
    /\ [][\A c \in Consumers :
            /\ ws_last'[c].op = "connect" =>
                   Membership(c)' =
                       IF ws_last'[c].device_id = "none" THEN {"telemetry_all"}
                       ELSE IF ws_last'[c].device_id \in KnownDevices
                       THEN {"telemetry_" \o ws_last'[c].device_id}
                       ELSE {}
            /\ \A g \in Membership(c)' \ Membership(c) :
                   \/ /\ ws_last'[c].op = "connect"
                      /\ ws_state[c] = "new"
                      /\ g = IF ws_last'[c].device_id = "none"
                             THEN "telemetry_all"
                             ELSE "telemetry_" \o ws_last'[c].device_id
                   \/ /\ ws_last'[c].op = "subscribe_device"
                      /\ g = "telemetry_" \o ws_last'[c].device_id]_vars

\* a consumer has connected on the route of an existing device and sits in
\* the group of that device alone
C28_Witness ==
    \E c \in Consumers :
        /\ ws_last[c].op = "connect"
        /\ ws_last[c].device_id = "device-123"
        /\ Membership(c) = {"telemetry_device-123"}
        /\ ws_state[c] = "open"

\* C29: after an unexpected disconnect the ingestion client gives a
\* reconnection up only when max_retries attempts have failed.
C29_ReconnectUpToCap ==
    conn_log = "reconnect_failed" => reconnect_calls = max_retries

\* C30: a connection of the ingestion client that the broker has accepted
\* (rc 0), the first one or one after a reconnect, holds the subscription
\* telemetry/#, and an on_connect with a non-zero rc subscribes to nothing.
C30_SubscribesOnAccept ==
    /\ subscriptions = {}
    /\ [][/\ conn_state' = "connected" => subscriptions' = {"telemetry/#"}
          /\ (conn_state = "connecting" /\ conn_state' = "connected") =>
                 /\ conn_log' = "subscribed"
                 /\ subscriptions = {}
          /\ (conn_state = "connecting" /\ conn_state' = "refused") =>
                 /\ subscriptions' = subscriptions
                 /\ subscriptions' = {}]_vars

\* the client has been reconnected after an unexpected disconnect and has
\* subscribed again
C30_Witness ==
    /\ conn_state = "connected"
    /\ reconnect_calls = 1
    /\ subscriptions = {"telemetry/#"}
    /\ conn_log = "subscribed"

\* reconnect thread r is inside _reconnect
Reconnecting(r) == rpc[r] \in {"top", "try", "backoff"}

\* C31: a reconnect loop is started only by _on_disconnect called with a
\* non-zero return code: the callback with return code 0 starts none, and
\* neither does stop(), whose disconnect() is deliberate.
C31_OnlyUnexpectedStartsLoop ==
    [][/\ (nreconnects' # nreconnects \/ \E r \in ReconnectThreads :
                                             ~Reconnecting(r) /\ Reconnecting(r)')
          => \E rc \in ReturnCodes \ {0} : on_disconnect(rc)
       /\ on_disconnect(0) => (nreconnects' = nreconnects /\ rpc' = rpc)
       /\ stop_call => (nreconnects' = nreconnects /\ rpc' = rpc)]_vars

\* stop() has disconnected a connection that an earlier reconnect loop had
\* re-established: the only loop ever started is that earlier one
C31_Witness ==
    /\ stop_returned
    /\ ~connected
    /\ nreconnects = 1
    /\ rresult[1] = "True"

\* C34: at most one reconnect loop is active at any time.
C34_AtMostOneReconnectLoop ==
    Cardinality({r \in ReconnectThreads : Reconnecting(r)}) <= 1

\* C35: once stop() has returned, and until the next start(), no reconnect
\* loop makes a connection attempt and the connection is not re-established.
C35_NoAttemptAfterStop ==
    [][(stop_returned /\ stop_returned')
       => /\ attempts' = attempts
          /\ (connected' => connected)]_vars

\* no thread start-up is in flight and no loop is on its way out: every
\* worker is unborn, has returned, or is in a loop whose condition holds
Quiescent ==
    \A t \in Threads :
        /\ pc[t] \notin {"spawned", "register"}
        /\ InLoop(t) => LoopCondition(t)

\* is_running of get_device_info: `device_id in self.threads`
is_running(d) == threads[d] # NoThread

\* C32: in every quiescent state a device is reported running exactly when a
\* live generation loop exists for it.
C32_ReportedRunningIffLive ==
    Quiescent =>
        \A d \in Devices :
            is_running(d) <=> \E t \in Threads : InLoop(t) /\ dev[t] = d

\* C33: while a device id is not in the registry (it has been removed and not
\* added again), the transport is not invoked for it: no client.publish on
\* telemetry/{id} takes place.
C33_NoPublishAfterRemove ==
    [][\A t \in Threads :
          (pc[t] = "send" /\ pc'[t] = "sleep") => registry[dev[t]] # NoDevice]_vars

\* C33, amended: a publish_telemetry call that begins while the id is not in
\* the registry returns False without invoking the transport; the transport
\* is invoked only by a call whose lookup found the device.
C33_CallAfterRemoveFails ==
    [][\A t \in Threads :
          /\ (pc[t] = "pub" /\ pc'[t] # "pub" /\ registry[dev[t]] = NoDevice)
             => (pc'[t] = "sleep" /\ tick'[t] = "not_found")
          /\ (pc[t] # "send" /\ pc'[t] = "send")
             => (pc[t] = "pub" /\ registry[dev[t]] # NoDevice)
          /\ tick'[t] = "published" => (pc[t] = "send" \/ tick[t] = "published")]_vars

\* the loop of a removed device is still ticking and its publish_telemetry
\* call has just returned False for want of the device
C33_Witness ==
    \E t \in Threads :
        /\ pc[t] = "sleep"
        /\ tick[t] = "not_found"
        /\ dev[t] \in Devices
        /\ registry[dev[t]] = NoDevice
        /\ LoopCondition(t)

\* simulate_failure returns True in this step: the device was failed going
\* into the tick, or the tick injects a failure
FailedTick == TickStep /\ (failure_state \/ failure_state')

\* C36: a failed tick changes no attribute of the device other than
\* failure_state and failure_duration: last_reading, anomaly_counter and the
\* configuration stay as they were, and the next sample of the physics model
\* is computed from the reading kept across the failure (the machine state it
\* allows, the cumulative total it adds to).
C36_FailedTickKeepsReading ==
    [][/\ FailedTick =>
            /\ last_reading' = last_reading
            /\ anomaly_counter' = anomaly_counter
            /\ noise_factor' = noise_factor
            /\ params' = params
       /\ (TickStep /\ ~FailedTick) =>
            /\ last_reading' = emitted'.data
            /\ params.kind = "vibration" =>
                   StateOf(emitted'.data) \in MachineStates(last_reading)
            /\ params.kind = "flow" =>
                   emitted'.data.total_flow >= LastTotal(last_reading)]_vars

\* a vibration device at the end of a failure window that began after an
\* `on` sample with a raised anomaly counter: both are still in place
C36_Witness ==
    /\ params.kind = "vibration"
    /\ ~failure_state
    /\ episode.drawn > 0
    /\ episode.ticks = episode.drawn
    /\ StateOf(emitted.data) = "fault"
    /\ StateOf(last_reading) = "on"
    /\ anomaly_counter > 0

\* C37: a tick returns an error-shaped sample exactly when simulate_failure
\* reports a failure, the tick on which failure_state reverts to false
\* included: the injection tick (episode.ticks = 0) and the d ticks of the
\* drawn duration d (episode.ticks = 1..d) make d + 1 consecutive error
\* samples, and no sample of the physics model comes before the last of them.
C37_ErrorSamplesPerEpisode ==
    [][TickStep =>
         /\ ErrorShaped(emitted'.data) <=> (failure_state \/ failure_state')
         /\ (~failure_state /\ failure_state') => episode'.ticks = 0
         /\ failure_state => episode'.ticks = episode.ticks + 1
         /\ (failure_state /\ ~failure_state') =>
                /\ ErrorShaped(emitted'.data)
                /\ episode'.ticks = episode'.drawn
         /\ ~ErrorShaped(emitted'.data) =>
                /\ ~failure_state
                /\ episode = NoEpisode \/ episode.ticks = episode.drawn]_vars

\* the tick on which failure_state reverts to false has returned the sixth
\* error sample of an episode of drawn duration 5, after a physics sample
C37_Witness ==
    /\ params.kind = "temperature"
    /\ ~failure_state
    /\ episode = [drawn |-> 5, ticks |-> 5]
    /\ emitted.data.status = "error"
    /\ last_reading # NoReading

\* the groups consumer c was in before its last command, a subscribe_device:
\* the command joined a group exactly when it answered subscription_update
BeforeSubscribe(c) ==
    IF ws_last[c].sent = "subscription_update"
    THEN Membership(c) \ {GroupOf(ws_last[c].device_id)}
    ELSE Membership(c)

\* consumer c's last command was subscribe_device for the existing device d
\* and this step is its unsubscribe_device for d
SubscribeThenUnsubscribe(c, d) ==
    /\ ws_last[c].op = "subscribe_device"
    /\ ws_last[c].device_id = d
    /\ DeviceExists(d)
    /\ ws_last'[c].op = "unsubscribe_device"
    /\ ws_last'[c].device_id = d

\* C39: subscribe_device followed by unsubscribe_device for the same existing
\* device restores the group membership the channel had before the two.
C39_UnsubscribeRestores ==
    [][\A c \in Consumers, d \in SocketDevices :
          SubscribeThenUnsubscribe(c, d) => Membership(c)' = BeforeSubscribe(c)]_vars

\* C39, amended: subscribe_device for a group the channel is in changes
\* nothing; unsubscribe_device for a group the channel is not in changes
\* nothing; subscribe_device followed by unsubscribe_device for the same
\* existing device leaves the channel out of the device's group and in its
\* other groups, which is the membership before the two exactly when the
\* channel was not in the group before the subscribe.
C39_SubscribeIdempotentUnsubscribeLeaves ==
    [][\A c \in Consumers :
          LET g == GroupOf(ws_last'[c].device_id)
          IN  /\ (ws_last'[c].op = "subscribe_device" /\ g \in Membership(c))
                 => (Membership(c)' = Membership(c) /\ ws_groups'[c] = ws_groups[c])
              /\ (ws_last'[c].op = "unsubscribe_device" /\ g \notin Membership(c))
                 => (Membership(c)' = Membership(c) /\ ws_groups'[c] = ws_groups[c])
              /\ \A d \in SocketDevices :
                    SubscribeThenUnsubscribe(c, d) =>
                       /\ Membership(c)' = Membership(c) \ {GroupOf(d)}
                       /\ Membership(c)' = BeforeSubscribe(c)
                             <=> ws_last[c].sent = "subscription_update"]_vars

\* a consumer of the catch-all route has subscribed to device-123 and
\* unsubscribed again: it is back in telemetry_all alone
C39_Witness ==
    \E c \in Consumers :
        /\ ws_device_id[c] = "none"
        /\ ws_state[c] = "open"
        /\ ws_last[c] = [op |-> "unsubscribe_device", device_id |-> "device-123",
                         sent |-> "subscription_update"]
        /\ Membership(c) = {"telemetry_all"}

\* C40: a disconnected consumer's channel is in no group, and after every
\* completed connect, subscribe_device and unsubscribe_device the groups that
\* hold the channel are exactly the groups of the consumer's list self.groups.
C40_MembershipIsTrackedList ==
    \A c \in Consumers :
        /\ ws_state[c] \in {"new", "closed"} => Membership(c) = {}
        /\ ws_state[c] \in {"open", "rejected"} =>
               /\ Membership(c) = Range(ws_groups[c])
               /\ Cardinality(Range(ws_groups[c])) = Len(ws_groups[c])

\* a consumer that had joined a second group by subscribe_device has
\* disconnected: its list still names both groups, the layer holds neither
C40_Witness ==
    \E c \in Consumers :
        /\ ws_state[c] = "closed"
        /\ Len(ws_groups[c]) = 2
        /\ Membership(c) = {}

\* the number of times consumer c's socket was sent the frame of event e
Received(c, e) ==
    IF Dispatch(e) \in DOMAIN ws_frames'[c] THEN ws_frames'[c][Dispatch(e)]
    ELSE 0

====
